---- MODULE Spec2Model ----
(***************************************************************************)
(* Scoped authorization (roles, role assignments, effective scopes) and    *)
(* the order lifecycle of the food-delivery backend.                       *)
(*                                                                         *)
(* Identifiers are positive integers; NULL (SQL NULL / Python None) is 0.  *)
(* The rider handlers read and write Driver.is_available and               *)
(* Delivery.pickup_time / delivery_time / driver_earning; the model keeps  *)
(* those fields under the names the handlers use.                          *)
(***************************************************************************)
EXTENDS Integers, Sequences, FiniteSets, TLC

NULL == 0

\* ------------------------------------------------------------------------
\* Reference data
\* ------------------------------------------------------------------------

\* app/models/order.py: OrderStatus
OrderStatus ==
    {"created", "confirmed", "preparing", "ready", "assigned",
     "picked_up", "delivered", "cancelled", "refunded"}

\* app/models/rbac.py: RoleCode
RoleCode ==
    {"super_admin", "city_admin", "shift_lead", "dispatcher", "support",
     "restaurant_admin", "customer", "rider", "restaurant_owner"}

\* app/models/rbac.py: ScopeType
ScopeType == {"global", "city", "restaurant", "self"}

\* scope type of the seeded roles (migration rbac_001, INSERT INTO roles)
RoleScopeType(code) ==
    CASE code = "super_admin" -> "global"
      [] code \in {"city_admin", "shift_lead", "dispatcher", "support"} -> "city"
      [] code = "restaurant_admin" -> "restaurant"
      [] OTHER -> "self"

\* users table: id |-> legacy account role (app/models/user.py: UserRole)
\* (the bootstrap admin of create_admin.py gets the column default, customer)
Users == 1..8
UserAccountRole(u) ==
    CASE u \in {3, 4} -> "restaurant_owner"
      [] u \in {5, 6} -> "driver"
      [] OTHER -> "customer"
\* User.is_active: the last account has been deactivated; no endpoint of
\* the application changes the column
DeactivatedUser == Cardinality(Users)
UserIsActive(u) == u \in Users /\ u # DeactivatedUser

Cities == {1, 2}
Restaurants == {1, 2, 3}
\* restaurants table: city_id and owner_id of each restaurant
RestaurantCity(r) == IF r = 3 THEN 2 ELSE 1
RestaurantOwner(r) == IF r = 3 THEN 4 ELSE 3

\* an id that names no row of the table it is looked up in
NoSuchId == Cardinality(Users) + 1

\* ------------------------------------------------------------------------
\* State
\* ------------------------------------------------------------------------
VARIABLES
    user_roles,   \* user_roles table: sequence of rows, row id = index
    roles,        \* roles table: role code |-> is_active
    shift_leads,  \* shift_leads table: sequence of rows, row id = index
    restaurants,  \* restaurants table: restaurant id |-> approval columns
    refunds,      \* orders for which "Refund processed successfully" was answered
    orders,       \* orders table: order id |-> row
    deliveries,   \* deliveries table: order id |-> row (order_id is unique)
    drivers,      \* drivers table: user id |-> row
    clock,        \* datetime.utcnow(), advanced by every timestamp written
    req,          \* in-flight requests of the concurrent specification
    last          \* response of the last completed request

rbacVars == <<user_roles, roles, shift_leads>>
orderVars == <<orders, deliveries, clock>>
vars ==
    <<user_roles, roles, shift_leads, restaurants, refunds, orders, deliveries,
      drivers, clock, req, last>>

Response(op, actor, code, target, args, result) ==
    [op |-> op, actor |-> actor, code |-> code, target |-> target,
     args |-> args, result |-> result]

NoResponse == Response("none", NULL, 0, NULL, <<>>, {})

\* ------------------------------------------------------------------------
\* Scope resolver (app/services/rbac_service.py)
\* ------------------------------------------------------------------------

\* the selection without the test of the assignment's is_active
ActiveUserRoles_KeepingRevoked(ur, rl, user_id) ==
    {i \in DOMAIN ur : /\ ur[i].user_id = user_id
                       /\ rl[ur[i].role]}

\* the rows get_user_scopes selects: assignment and role both active
ActiveUserRoles(ur, rl, user_id) ==
    {i \in DOMAIN ur : /\ ur[i].user_id = user_id
                       /\ ur[i].is_active
                       /\ rl[ur[i].role]}

\* get_user_scopes taking the city_id of every assignment as a city scope
get_user_scopes_HintAsScope(ur, rl, user_id) ==
    LET rows == ActiveUserRoles(ur, rl, user_id)
        plain == {i \in rows : ur[i].role # "super_admin"}
    IN  [user_id |-> user_id,
         is_super_admin |-> \E i \in rows : ur[i].role = "super_admin",
         city_ids |-> {ur[i].city_id : i \in {j \in plain : ur[j].city_id # NULL}},
         restaurant_ids |-> {ur[i].restaurant_id : i \in
                          {j \in plain : /\ RoleScopeType(ur[j].role) = "restaurant"
                                         /\ ur[j].restaurant_id # NULL}},
         is_self_only |-> \E i \in plain : RoleScopeType(ur[i].role) = "self",
         role_codes |-> {ur[i].role : i \in rows}]

get_user_scopes(ur, rl, user_id) ==
    LET rows == ActiveUserRoles(ur, rl, user_id)
        plain == {i \in rows : ur[i].role # "super_admin"}
    IN  [user_id |-> user_id,
         is_super_admin |-> \E i \in rows : ur[i].role = "super_admin",
         city_ids |-> {ur[i].city_id : i \in
                          {j \in plain : /\ RoleScopeType(ur[j].role) = "city"
                                         /\ ur[j].city_id # NULL}},
         restaurant_ids |-> {ur[i].restaurant_id : i \in
                          {j \in plain : /\ RoleScopeType(ur[j].role) = "restaurant"
                                         /\ ur[j].restaurant_id # NULL}},
         is_self_only |-> \E i \in plain : RoleScopeType(ur[i].role) = "self",
         role_codes |-> {ur[i].role : i \in rows}]

Scopes(u) == get_user_scopes(user_roles, roles, u)

has_role(scopes, codes) == scopes.role_codes \cap codes # {}

can_access_city(scopes, city_id) ==
    scopes.is_super_admin \/ city_id \in scopes.city_ids

can_access_restaurant(scopes, restaurant_id) ==
    scopes.is_super_admin \/ restaurant_id \in scopes.restaurant_ids

can_access_user(scopes, target_user_id) ==
    scopes.is_super_admin
        \/ (scopes.is_self_only /\ target_user_id = scopes.user_id)

has_city_scope(scopes) == scopes.is_super_admin \/ scopes.city_ids # {}

has_restaurant_scope(scopes) ==
    scopes.is_super_admin \/ scopes.restaurant_ids # {}

\* ScopeValidator.ensure_order_access: TRUE = returns, FALSE = raises 403
\* ensure_order_access without the rider branch
ensure_order_access_NoRiderBranch(scopes, order) ==
    IF scopes.is_super_admin THEN TRUE
    ELSE IF has_city_scope(scopes) /\ can_access_city(scopes, order.city_id)
        THEN TRUE
    ELSE IF has_restaurant_scope(scopes)
            /\ can_access_restaurant(scopes, order.restaurant_id)
        THEN TRUE
    ELSE IF scopes.is_self_only /\ order.customer_id = scopes.user_id
        THEN TRUE
    ELSE FALSE

ensure_order_access(scopes, order) ==
    IF scopes.is_super_admin THEN TRUE
    ELSE IF has_city_scope(scopes) /\ can_access_city(scopes, order.city_id)
        THEN TRUE
    ELSE IF has_restaurant_scope(scopes)
            /\ can_access_restaurant(scopes, order.restaurant_id)
        THEN TRUE
    ELSE IF scopes.is_self_only /\ order.customer_id = scopes.user_id
        THEN TRUE
    ELSE IF scopes.is_self_only /\ order.rider_id = scopes.user_id
        THEN TRUE
    ELSE FALSE

\* ------------------------------------------------------------------------
\* Tables and lookups
\* ------------------------------------------------------------------------

OrderIds == DOMAIN orders

\* session.get(Order, id): the row, or nothing
OrderExists(oid) == oid \in OrderIds

\* session.get(User, id)
UserExists(u) == u \in Users

\* select(Driver).where(Driver.user_id == user.id)
DriverOf(u) == IF u \in DOMAIN drivers THEN u ELSE NULL

NoDelivery ==
    [driver_id |-> NULL, pickup_time |-> NULL, delivery_time |-> NULL,
     driver_earning |-> NULL]

\* session.get(Delivery, id); a delivery is identified by its order
DeliveryExists(did) == did \in DOMAIN deliveries /\ deliveries[did].driver_id # NULL

\* app/config.py: BIKE_PAY_PER_KM = 0.15, in hundredths
BIKE_PAY_PER_KM == 15

SetStatus(oid, status) == [orders EXCEPT ![oid].status = status]

\* a request that ends without touching the store
Reject(op, actor, code, target, args) ==
    /\ last' = Response(op, actor, code, target, args, {})
    /\ UNCHANGED <<user_roles, roles, shift_leads, restaurants, refunds,
                   orders, deliveries, drivers, clock, req>>

\* ------------------------------------------------------------------------
\* Restaurant app (app/api/apps/restaurant/orders.py)
\* ------------------------------------------------------------------------

\* the gate without the ownership test
OwnerGate_AnyOwner(actor, oid) ==
    IF UserAccountRole(actor) # "restaurant_owner" THEN 403
    ELSE IF ~OrderExists(oid) THEN 404
    ELSE 0

\* get_current_restaurant_owner, load order, verify ownership: 0 = passed
OwnerGate(actor, oid) ==
    IF UserAccountRole(actor) # "restaurant_owner" THEN 403
    ELSE IF ~OrderExists(oid) THEN 404
    ELSE IF RestaurantOwner(orders[oid].restaurant_id) # actor THEN 403
    ELSE 0

\* the statuses from which the restaurant-side cancel_order proceeds
RestaurantCancellable == OrderStatus \ {"delivered", "cancelled"}

\* common shape of confirm_order, mark_preparing, mark_ready, cancel_order
OwnerTransition(op, actor, oid, from, to) ==
    LET gate == OwnerGate(actor, oid) IN
    IF gate # 0 THEN Reject(op, actor, gate, oid, <<>>)
    ELSE IF orders[oid].status \notin from THEN Reject(op, actor, 400, oid, <<>>)
    ELSE /\ orders' = SetStatus(oid, to)
         /\ last' = Response(op, actor, 200, oid, <<>>, {})
         /\ UNCHANGED <<user_roles, roles, shift_leads, restaurants, refunds,
                        deliveries, drivers, clock, req>>

confirm_order(actor, oid) ==
    OwnerTransition("confirm_order", actor, oid, {"created"}, "confirmed")

mark_preparing(actor, oid) ==
    OwnerTransition("mark_preparing", actor, oid, {"confirmed"}, "preparing")

mark_ready(actor, oid) ==
    OwnerTransition("mark_ready", actor, oid, {"preparing"}, "ready")

restaurant_cancel_order(actor, oid) ==
    OwnerTransition("restaurant_cancel_order", actor, oid,
                    RestaurantCancellable, "cancelled")

\* ------------------------------------------------------------------------
\* Customer app (app/api/apps/customer/orders.py)
\* ------------------------------------------------------------------------

\* the customer-side cancel also proceeding from preparing
CustomerCancellable_WithPreparing == {"created", "confirmed", "preparing"}

CustomerCancellable == {"created", "confirmed"}

customer_cancel_order(actor, oid) ==
    LET op == "customer_cancel_order" IN
    IF UserAccountRole(actor) # "customer" THEN Reject(op, actor, 403, oid, <<>>)
    ELSE IF ~OrderExists(oid) \/ orders[oid].customer_id # actor
        THEN Reject(op, actor, 404, oid, <<>>)
    ELSE IF orders[oid].status \notin CustomerCancellable
        THEN Reject(op, actor, 400, oid, <<>>)
    ELSE /\ orders' = SetStatus(oid, "cancelled")
         /\ last' = Response(op, actor, 200, oid, <<>>, {})
         /\ UNCHANGED <<user_roles, roles, shift_leads, restaurants, refunds,
                        deliveries, drivers, clock, req>>

\* ------------------------------------------------------------------------
\* Rider app (app/api/apps/rider/deliveries.py, profile.py)
\* ------------------------------------------------------------------------

toggle_availability(actor, is_available) ==
    LET op == "toggle_availability" IN
    IF UserAccountRole(actor) # "driver"
        THEN Reject(op, actor, 403, NULL, <<is_available>>)
    ELSE IF DriverOf(actor) = NULL
        THEN Reject(op, actor, 404, NULL, <<is_available>>)
    ELSE /\ drivers' = [drivers EXCEPT ![actor].is_available = is_available]
         /\ last' = Response(op, actor, 200, NULL, <<is_available>>, {})
         /\ UNCHANGED <<user_roles, roles, shift_leads, restaurants, refunds,
                        orders, deliveries, clock, req>>

accept_delivery(actor, oid) ==
    LET op == "accept_delivery" IN
    IF UserAccountRole(actor) # "driver" THEN Reject(op, actor, 403, oid, <<>>)
    ELSE IF DriverOf(actor) = NULL \/ ~drivers[actor].is_available
        THEN Reject(op, actor, 400, oid, <<>>)
    ELSE IF ~OrderExists(oid) \/ orders[oid].status # "ready"
        THEN Reject(op, actor, 400, oid, <<>>)
    \* deliveries.order_id is unique: a second row fails at commit
    ELSE IF DeliveryExists(oid) THEN Reject(op, actor, 500, oid, <<>>)
    ELSE /\ deliveries' = [deliveries EXCEPT ![oid] =
                              [NoDelivery EXCEPT !.driver_id = DriverOf(actor)]]
         /\ orders' = SetStatus(oid, "assigned")
         /\ last' = Response(op, actor, 201, oid, <<>>, {})
         /\ UNCHANGED <<user_roles, roles, shift_leads, restaurants, refunds,
                        drivers, clock, req>>

\* get_current_driver, driver profile, delivery of this driver: 0 = passed
DeliveryGate(actor, did) ==
    IF UserAccountRole(actor) # "driver" THEN 403
    ELSE IF DriverOf(actor) = NULL THEN 404
    ELSE IF ~DeliveryExists(did) \/ deliveries[did].driver_id # DriverOf(actor)
        THEN 404
    ELSE 0

\* mark_picked_up without the "already picked up" test
mark_picked_up_Repeatable(actor, did) ==
    LET op == "mark_picked_up"
        gate == DeliveryGate(actor, did) IN
    IF gate # 0 THEN Reject(op, actor, gate, did, <<>>)
    ELSE /\ deliveries' = [deliveries EXCEPT ![did].pickup_time = clock + 1]
         /\ clock' = clock + 1
         /\ orders' = IF OrderExists(did) THEN SetStatus(did, "picked_up")
                      ELSE orders
         /\ last' = Response(op, actor, 200, did, <<>>, {})
         /\ UNCHANGED <<user_roles, roles, shift_leads, restaurants, refunds,
                        drivers, req>>

mark_picked_up(actor, did) ==
    LET op == "mark_picked_up"
        gate == DeliveryGate(actor, did) IN
    IF gate # 0 THEN Reject(op, actor, gate, did, <<>>)
    ELSE IF deliveries[did].pickup_time # NULL
        THEN Reject(op, actor, 400, did, <<>>)
    ELSE /\ deliveries' = [deliveries EXCEPT ![did].pickup_time = clock + 1]
         /\ clock' = clock + 1
         /\ orders' = IF OrderExists(did) THEN SetStatus(did, "picked_up")
                      ELSE orders
         /\ last' = Response(op, actor, 200, did, <<>>, {})
         /\ UNCHANGED <<user_roles, roles, shift_leads, restaurants, refunds,
                        drivers, req>>

mark_delivered(actor, did) ==
    LET op == "mark_delivered"
        gate == DeliveryGate(actor, did) IN
    IF gate # 0 THEN Reject(op, actor, gate, did, <<>>)
    ELSE IF deliveries[did].pickup_time = NULL
        THEN Reject(op, actor, 400, did, <<>>)
    ELSE IF deliveries[did].delivery_time # NULL
        THEN Reject(op, actor, 400, did, <<>>)
    ELSE /\ deliveries' =
              [deliveries EXCEPT
                 ![did].delivery_time = clock + 1,
                 ![did].driver_earning =
                     IF OrderExists(did) /\ orders[did].distance_km # NULL
                     THEN orders[did].distance_km * BIKE_PAY_PER_KM
                     ELSE @]
         /\ clock' = clock + 1
         /\ orders' = IF OrderExists(did) THEN SetStatus(did, "delivered")
                      ELSE orders
         /\ last' = Response(op, actor, 200, did, <<>>, {})
         /\ UNCHANGED <<user_roles, roles, shift_leads, restaurants, refunds,
                        drivers, req>>

\* ------------------------------------------------------------------------
\* Scoped order endpoints (app/api/v1/orders_rbac.py)
\* ------------------------------------------------------------------------

assign_rider_to_order(actor, oid, rider_id) ==
    LET op == "assign_rider_to_order"
        scopes == Scopes(actor) IN
    IF ~scopes.is_super_admin /\ ~has_role(scopes, {"dispatcher"})
        THEN Reject(op, actor, 403, oid, <<rider_id>>)
    ELSE IF ~OrderExists(oid) THEN Reject(op, actor, 404, oid, <<rider_id>>)
    ELSE IF ~scopes.is_super_admin /\ orders[oid].city_id \notin scopes.city_ids
        THEN Reject(op, actor, 403, oid, <<rider_id>>)
    ELSE IF ~UserExists(rider_id) THEN Reject(op, actor, 404, oid, <<rider_id>>)
    ELSE /\ orders' = [orders EXCEPT
                         ![oid].rider_id = rider_id,
                         ![oid].status = IF @ = "ready" THEN "assigned" ELSE @]
         /\ last' = Response(op, actor, 200, oid, <<rider_id>>, {})
         /\ UNCHANGED <<user_roles, roles, shift_leads, restaurants, refunds,
                        deliveries, drivers, clock, req>>

Refundable == {"delivered", "cancelled"}

refund_order(actor, oid) ==
    LET op == "refund_order"
        scopes == Scopes(actor) IN
    IF ~scopes.is_super_admin /\ ~has_role(scopes, {"support"})
        THEN Reject(op, actor, 403, oid, <<>>)
    ELSE IF ~OrderExists(oid) THEN Reject(op, actor, 404, oid, <<>>)
    ELSE IF ~scopes.is_super_admin /\ orders[oid].city_id \notin scopes.city_ids
        THEN Reject(op, actor, 403, oid, <<>>)
    ELSE IF orders[oid].status = "refunded" THEN Reject(op, actor, 400, oid, <<>>)
    ELSE IF orders[oid].status \notin Refundable
        THEN Reject(op, actor, 400, oid, <<>>)
    ELSE /\ orders' = SetStatus(oid, "refunded")
         /\ refunds' = refunds \cup {oid}
         /\ last' = Response(op, actor, 200, oid, <<>>, {})
         /\ UNCHANGED <<user_roles, roles, shift_leads, restaurants,
                        deliveries, drivers, clock, req>>

\* ------------------------------------------------------------------------
\* Initial store
\* ------------------------------------------------------------------------

\* a user_roles row as assign_user_role and create_shift_lead insert it
UserRoleRow(user_id, role, city_id, restaurant_id, assigned_by, at) ==
    [user_id |-> user_id, role |-> role, city_id |-> city_id,
     restaurant_id |-> restaurant_id, is_active |-> TRUE,
     assigned_by |-> assigned_by, assigned_at |-> at, revoked_at |-> NULL]

\* create_admin.py: the bootstrap super admin
SuperAdminUser ==
    CHOOSE u \in Users : UserIsActive(u) /\ \A v \in Users : UserIsActive(v) => v <= u
SeedRoles == <<UserRoleRow(SuperAdminUser, "super_admin", NULL, NULL, NULL, 0)>>

\* the account that receives city-scoped roles from the super admin
StaffUser == 2

\* staffed stores: what the super admin has granted before orders are handled
StaffedRoles ==
    {SeedRoles \o <<UserRoleRow(StaffUser, a, 1, NULL, SuperAdminUser, 0),
                    UserRoleRow(StaffUser, b, c, NULL, SuperAdminUser, 0)>> :
        <<a, b, c>> \in {<<"support", "dispatcher", 2>>,
                         <<"dispatcher", "support", 2>>}}

\* distances of the orders placed, in km (NULL: pickup or unknown)
DistanceInputs == {NULL, 5}

NewOrder(restaurant_id, customer_id, distance_km) ==
    [city_id |-> RestaurantCity(restaurant_id), restaurant_id |-> restaurant_id,
     customer_id |-> customer_id, rider_id |-> NULL, status |-> "created",
     distance_km |-> distance_km]

\* app/models/restaurant.py: a restaurant as registered, not yet approved
NewRestaurant ==
    [is_approved |-> FALSE, is_active |-> TRUE,
     approved_by |-> NULL, approved_at |-> NULL]

InitRestaurants == [r \in Restaurants |-> NewRestaurant]

\* driver accounts that have created their profile (create_driver_profile)
InitDrivers == [u \in {5} |-> [is_available |-> FALSE, vehicle_type |-> "bike"]]

Init ==
    /\ user_roles \in StaffedRoles
    /\ roles = [c \in RoleCode |-> TRUE]
    /\ shift_leads = <<>>
    /\ restaurants = InitRestaurants
    /\ refunds = {}
    /\ \E r \in {1, 3}, d \in DistanceInputs :
          orders = [o \in {1} |-> NewOrder(r, 1, d)]
    /\ deliveries = [o \in {1} |-> NoDelivery]
    /\ drivers = InitDrivers
    /\ clock = 0
    /\ req = <<>>
    /\ last = NoResponse

\* ------------------------------------------------------------------------
\* Sequential specification: one request at a time, each handler atomic
\* ------------------------------------------------------------------------

OrderInputs == OrderIds \cup {NoSuchId}
RiderInputs == {5, 6, NoSuchId}

\* callers tried on each group of endpoints: the accounts that pass the
\* endpoint's account-role gate, and one that does not
OwnerCallers == {1, 3, 4}
CustomerCallers == {1, 2, 3}
DriverCallers == {1, 5, 6}
\* scoped endpoints take any account: one without roles, the staff account
\* and the super admin
StaffCallers == {1, StaffUser, SuperAdminUser}

Next ==
    \/ \E actor \in OwnerCallers, oid \in OrderInputs : confirm_order(actor, oid)
    \/ \E actor \in OwnerCallers, oid \in OrderInputs : mark_preparing(actor, oid)
    \/ \E actor \in OwnerCallers, oid \in OrderInputs : mark_ready(actor, oid)
    \/ \E actor \in OwnerCallers, oid \in OrderInputs :
          restaurant_cancel_order(actor, oid)
    \/ \E actor \in CustomerCallers, oid \in OrderInputs :
          customer_cancel_order(actor, oid)
    \/ \E actor \in DriverCallers, b \in BOOLEAN : toggle_availability(actor, b)
    \/ \E actor \in DriverCallers, oid \in OrderInputs : accept_delivery(actor, oid)
    \/ \E actor \in DriverCallers, did \in OrderInputs : mark_picked_up(actor, did)
    \/ \E actor \in DriverCallers, did \in OrderInputs : mark_delivered(actor, did)
    \/ \E actor \in StaffCallers, oid \in OrderInputs, rider_id \in RiderInputs :
          assign_rider_to_order(actor, oid, rider_id)
    \/ \E actor \in StaffCallers, oid \in OrderInputs : refund_order(actor, oid)

Spec == Init /\ [][Next]_vars

\* ------------------------------------------------------------------------
\* Delivery specification: the same requests, two couriers with a profile
\* ------------------------------------------------------------------------

BIKE_MAX_KM == 8
CAR_MAX_KM == 15

\* app/services/pricing_service.py
driver_eligible(vehicle, distance_km) ==
    IF vehicle = "bike" THEN distance_km <= BIKE_MAX_KM
    ELSE IF vehicle = "car" THEN distance_km <= CAR_MAX_KM
    ELSE FALSE

\* courier 5 rides a bike, courier 6 drives a car
DeliveryDrivers ==
    [u \in {5, 6} |-> [is_available |-> FALSE,
                       vehicle_type |-> IF u = 5 THEN "bike" ELSE "car"]]

\* within reach of a bike, beyond it
DeliveryDistances == {5, BIKE_MAX_KM + 1}

\* the staff account dispatches and supports city 1
DispatchStaff ==
    SeedRoles \o <<UserRoleRow(StaffUser, "dispatcher", 1, NULL, SuperAdminUser, 0),
                   UserRoleRow(StaffUser, "support", 1, NULL, SuperAdminUser, 0)>>

InitDelivery ==
    /\ user_roles = DispatchStaff
    /\ roles = [c \in RoleCode |-> TRUE]
    /\ shift_leads = <<>>
    /\ restaurants = InitRestaurants
    /\ refunds = {}
    /\ \E d \in DeliveryDistances : orders = [o \in {1} |-> NewOrder(1, 1, d)]
    /\ deliveries = [o \in {1} |-> NoDelivery]
    /\ drivers = DeliveryDrivers
    /\ clock = 0
    /\ req = <<>>
    /\ last = NoResponse

SpecDelivery == InitDelivery /\ [][Next]_vars

\* ------------------------------------------------------------------------
\* Concurrent specification: every request runs in its own AsyncSession
\* (app/db/session.py); it loads the order, checks the loaded copy, assigns
\* the new status to the loaded copy, and commit() flushes
\* UPDATE orders SET status = ... WHERE id = ... and commits.
\* ------------------------------------------------------------------------

ReqIds == {1, 2}

RaceOps ==
    {"confirm_order", "mark_preparing", "restaurant_cancel_order",
     "customer_cancel_order", "refund_order"}

RaceCallers(op) ==
    CASE op = "customer_cancel_order" -> {1}
      [] op = "refund_order" -> {StaffUser, SuperAdminUser}
      [] OTHER -> {3, 4}

IdleRequest ==
    [op |-> "none", actor |-> NULL, oid |-> NULL, pc |-> "idle",
     seen |-> "none", overwrote |-> "none", code |-> 0]

\* the status the handler assigns
TargetStatus(op) ==
    CASE op = "confirm_order" -> "confirmed"
      [] op = "mark_preparing" -> "preparing"
      [] op \in {"restaurant_cancel_order", "customer_cancel_order"} -> "cancelled"
      [] op = "refund_order" -> "refunded"

\* the statuses the handler accepts in the copy it loaded
AllowedStatus(op) ==
    CASE op = "confirm_order" -> {"created"}
      [] op = "mark_preparing" -> {"confirmed"}
      [] op = "restaurant_cancel_order" -> RestaurantCancellable
      [] op = "customer_cancel_order" -> CustomerCancellable
      [] op = "refund_order" -> Refundable

\* the handler's authorization checks on the loaded order: 0 = passed
AuthorizationCheck(op, actor, order) ==
    CASE op \in {"confirm_order", "mark_preparing", "restaurant_cancel_order"} ->
            IF UserAccountRole(actor) # "restaurant_owner" THEN 403
            ELSE IF RestaurantOwner(order.restaurant_id) # actor THEN 403
            ELSE 0
      [] op = "customer_cancel_order" ->
            IF UserAccountRole(actor) # "customer" THEN 403
            ELSE IF order.customer_id # actor THEN 404
            ELSE 0
      [] op = "refund_order" ->
            IF ~Scopes(actor).is_super_admin /\ ~has_role(Scopes(actor), {"support"})
                THEN 403
            ELSE IF ~Scopes(actor).is_super_admin
                    /\ order.city_id \notin Scopes(actor).city_ids THEN 403
            ELSE 0

raceFrame == <<user_roles, roles, shift_leads, restaurants, deliveries, drivers, clock, last>>

\* the request arrives
StartRequest(r, op, actor, oid) ==
    /\ req[r].pc = "idle"
    /\ req' = [req EXCEPT ![r] =
                 [IdleRequest EXCEPT !.op = op, !.actor = actor, !.oid = oid,
                                     !.pc = "started"]]
    /\ UNCHANGED <<orders, refunds, raceFrame>>

\* order = await session.get(Order, order_id)
ReadOrder(r) ==
    /\ req[r].pc = "started"
    /\ req' = [req EXCEPT ![r].seen = orders[req[r].oid].status,
                          ![r].pc = "read"]
    /\ UNCHANGED <<orders, refunds, raceFrame>>

\* ownership / scope check, then the status check, on the loaded copy
CheckOrder(r) ==
    /\ req[r].pc = "read"
    /\ LET auth == AuthorizationCheck(req[r].op, req[r].actor, orders[req[r].oid])
       IN  req' = [req EXCEPT
                     ![r].code = IF auth # 0 THEN auth
                                 ELSE IF req[r].seen \notin AllowedStatus(req[r].op)
                                      THEN 400 ELSE 0,
                     ![r].pc = IF auth # 0
                                  \/ req[r].seen \notin AllowedStatus(req[r].op)
                               THEN "done" ELSE "checked"]
    /\ UNCHANGED <<orders, refunds, raceFrame>>

\* order.status = ... on the loaded copy
WriteOrder(r) ==
    /\ req[r].pc = "checked"
    /\ req' = [req EXCEPT ![r].pc = "written"]
    /\ UNCHANGED <<orders, refunds, raceFrame>>

\* await session.commit(): the UPDATE carries no condition on the status
CommitOrder(r) ==
    /\ req[r].pc = "written"
    /\ orders' = SetStatus(req[r].oid, TargetStatus(req[r].op))
    /\ req' = [req EXCEPT ![r].overwrote = orders[req[r].oid].status,
                          ![r].code = 200,
                          ![r].pc = "done"]
    /\ refunds' = IF req[r].op = "refund_order"
                  THEN refunds \cup {req[r].oid} ELSE refunds
    /\ UNCHANGED raceFrame

\* stores in which two requests meet: an order that is new, confirmed, or
\* delivered by driver 5
RaceOrders ==
    {[NewOrder(1, 1, NULL) EXCEPT !.status = s] :
        s \in {"created", "confirmed", "delivered"}}

InitRace ==
    /\ user_roles \in StaffedRoles
    /\ roles = [c \in RoleCode |-> TRUE]
    /\ shift_leads = <<>>
    /\ restaurants = InitRestaurants
    /\ refunds = {}
    /\ \E o \in RaceOrders :
          /\ orders = [i \in {1} |-> o]
          /\ deliveries = [i \in {1} |->
                IF o.status = "delivered"
                THEN [driver_id |-> 5, pickup_time |-> 1, delivery_time |-> 2,
                      driver_earning |-> NULL]
                ELSE NoDelivery]
          /\ clock = IF o.status = "delivered" THEN 2 ELSE 0
    /\ drivers = InitDrivers
    /\ req = [r \in ReqIds |-> IdleRequest]
    /\ last = NoResponse

NextRace ==
    \/ \E r \in ReqIds, op \in RaceOps :
          \E actor \in RaceCallers(op), oid \in OrderIds :
             StartRequest(r, op, actor, oid)
    \/ \E r \in ReqIds : ReadOrder(r)
    \/ \E r \in ReqIds : CheckOrder(r)
    \/ \E r \in ReqIds : WriteOrder(r)
    \/ \E r \in ReqIds : CommitOrder(r)

SpecRace == InitRace /\ [][NextRace]_vars

\* ------------------------------------------------------------------------
\* Role-assignment governor (app/services/rbac_service.py, rbac_admin.py)
\* ------------------------------------------------------------------------

\* can_assign_role without the scope-type test on the role
can_assign_role_AnyScopeType(assigner_user_id, role_code, target_city_id, target_restaurant_id) ==
    LET assigner_scopes == Scopes(assigner_user_id) IN
    IF assigner_scopes.is_super_admin THEN TRUE
    ELSE IF has_role(assigner_scopes, {"city_admin"})
        THEN IF role_code \notin RoleCode THEN FALSE
             ELSE target_city_id # NULL
                    /\ can_access_city(assigner_scopes, target_city_id)
    ELSE FALSE

\* True / False of can_assign_role
can_assign_role(assigner_user_id, role_code, target_city_id, target_restaurant_id) ==
    LET assigner_scopes == Scopes(assigner_user_id) IN
    IF assigner_scopes.is_super_admin THEN TRUE
    ELSE IF has_role(assigner_scopes, {"city_admin"})
        THEN IF role_code \notin RoleCode THEN FALSE
             ELSE IF RoleScopeType(role_code) # "city" THEN FALSE
             ELSE target_city_id # NULL
                    /\ can_access_city(assigner_scopes, target_city_id)
    ELSE FALSE

check_role_permission(user_id, required_roles, city_id, restaurant_id) ==
    LET scopes == Scopes(user_id) IN
    IF scopes.is_super_admin THEN TRUE
    ELSE IF ~has_role(scopes, required_roles) THEN FALSE
    ELSE IF city_id # NULL /\ ~can_access_city(scopes, city_id) THEN FALSE
    ELSE IF restaurant_id # NULL /\ ~can_access_restaurant(scopes, restaurant_id)
        THEN FALSE
    ELSE TRUE

\* the validation without "city-scoped roles require city_id"
ScopeConstraintError_CityOptional(scope_type, city_id, restaurant_id) ==
    IF scope_type = "global" /\ (city_id # NULL \/ restaurant_id # NULL) THEN 400
    ELSE IF scope_type = "city" /\ restaurant_id # NULL THEN 400
    ELSE IF scope_type = "restaurant" /\ restaurant_id = NULL THEN 400
    ELSE 0

\* assign_user_role, "Validate scope constraints": 400, or 0 when accepted
ScopeConstraintError(scope_type, city_id, restaurant_id) ==
    IF scope_type = "global" /\ (city_id # NULL \/ restaurant_id # NULL) THEN 400
    ELSE IF scope_type = "city" /\ city_id = NULL THEN 400
    ELSE IF scope_type = "city" /\ restaurant_id # NULL THEN 400
    ELSE IF scope_type = "restaurant" /\ restaurant_id = NULL THEN 400
    ELSE 0

\* ------------------------------------------------------------------------
\* Scoped reads (orders_rbac.py, dashboard.py, rbac_admin.py, rbac_service.py)
\* ------------------------------------------------------------------------

\* a read-only request: the store stays as it is
Answer(op, actor, code, target, args, result) ==
    /\ last' = Response(op, actor, code, target, args, result)
    /\ UNCHANGED <<user_roles, roles, shift_leads, restaurants, refunds,
                   orders, deliveries, drivers, clock, req>>

get_order_details(actor, oid) ==
    LET op == "get_order_details" IN
    IF ~OrderExists(oid) THEN Answer(op, actor, 404, oid, <<>>, {})
    ELSE IF ~ensure_order_access(Scopes(actor), orders[oid])
        THEN Answer(op, actor, 403, oid, <<>>, {})
    ELSE Answer(op, actor, 200, oid, <<>>, {oid})

\* list_orders_scoped, "Apply scope-based filters": the rows the first filter
\* keeps; matched is FALSE when no branch applies and [] is returned at once
ListScopeFilter(scopes, user_id) ==
    IF scopes.is_super_admin
        THEN [matched |-> TRUE, rows |-> OrderIds]
    ELSE IF has_role(scopes, {"city_admin", "dispatcher", "support"})
        THEN [matched |-> TRUE,
              rows |-> {o \in OrderIds : orders[o].city_id \in scopes.city_ids}]
    ELSE IF has_role(scopes, {"restaurant_admin"})
        THEN [matched |-> TRUE,
              rows |-> {o \in OrderIds :
                          orders[o].restaurant_id \in scopes.restaurant_ids}]
    ELSE IF has_role(scopes, {"customer"})
        THEN [matched |-> TRUE,
              rows |-> {o \in OrderIds : orders[o].customer_id = user_id}]
    ELSE IF has_role(scopes, {"rider"})
        THEN [matched |-> TRUE,
              rows |-> {o \in OrderIds : orders[o].rider_id = user_id}]
    ELSE [matched |-> FALSE, rows |-> {}]

\* an optional string parameter that was not given
Absent == ""

\* the optional query parameters city_id, restaurant_id, status
ParamFilter(rows, city_id, restaurant_id, status) ==
    {o \in rows : /\ city_id # NULL => orders[o].city_id = city_id
                  /\ restaurant_id # NULL => orders[o].restaurant_id = restaurant_id
                  /\ status # Absent => orders[o].status = status}

\* (limit and offset are left at values that keep every row)
list_orders_scoped(actor, city_id, restaurant_id, status) ==
    LET op == "list_orders_scoped"
        scopes == Scopes(actor)
        args == <<city_id, restaurant_id, status>>
        scoped == ListScopeFilter(scopes, actor) IN
    IF ~scoped.matched THEN Answer(op, actor, 200, NULL, args, {})
    ELSE IF city_id # NULL /\ ~scopes.is_super_admin /\ city_id \notin scopes.city_ids
        THEN Answer(op, actor, 403, NULL, args, {})
    ELSE IF /\ restaurant_id # NULL
            /\ ~scopes.is_super_admin /\ restaurant_id \notin scopes.restaurant_ids
            /\ ~has_city_scope(scopes)
        THEN Answer(op, actor, 403, NULL, args, {})
    ELSE Answer(op, actor, 200, NULL, args,
                ParamFilter(scoped.rows, city_id, restaurant_id, status))

\* get_order_stats / get_dashboard_stats, "scope filters" on select(Order)
StatsScopeFilter(scopes) ==
    IF scopes.is_super_admin THEN OrderIds
    ELSE IF has_city_scope(scopes)
        THEN {o \in OrderIds : orders[o].city_id \in scopes.city_ids}
    ELSE IF has_restaurant_scope(scopes)
        THEN {o \in OrderIds : orders[o].restaurant_id \in scopes.restaurant_ids}
    ELSE OrderIds

\* the result is the set of orders counted in total_orders
get_order_stats(actor, city_id, restaurant_id) ==
    LET op == "get_order_stats"
        scopes == Scopes(actor)
        args == <<city_id, restaurant_id>> IN
    IF ~scopes.is_super_admin
         /\ ~has_role(scopes, {"city_admin", "restaurant_admin", "support"})
        THEN Answer(op, actor, 403, NULL, args, {})
    ELSE IF city_id # NULL /\ ~can_access_city(scopes, city_id)
        THEN Answer(op, actor, 403, NULL, args, {})
    ELSE IF restaurant_id # NULL /\ ~can_access_restaurant(scopes, restaurant_id)
        THEN Answer(op, actor, 403, NULL, args, {})
    ELSE Answer(op, actor, 200, NULL, args,
                ParamFilter(StatsScopeFilter(scopes), city_id, restaurant_id, Absent))

\* dashboard_home: require_admin_access, then get_dashboard_stats; the result
\* is the set of orders counted in total_orders
get_dashboard_stats(actor) ==
    LET op == "get_dashboard_stats"
        scopes == Scopes(actor) IN
    IF ~scopes.is_super_admin
         /\ ~has_role(scopes, {"super_admin", "city_admin", "restaurant_admin"})
        THEN Answer(op, actor, 403, NULL, <<>>, {})
    ELSE Answer(op, actor, 200, NULL, <<>>, StatsScopeFilter(scopes))

\* every city of the model is active, so include_inactive changes nothing
list_cities(actor) ==
    LET scopes == Scopes(actor) IN
    Answer("list_cities", actor, 200, NULL, <<>>,
           IF ~scopes.is_super_admin /\ scopes.city_ids # {}
           THEN {c \in Cities : c \in scopes.city_ids}
           ELSE Cities)

\* apply_scope_filters(select(Order), Order, scopes, user_id_field): Order has
\* both city_id and restaurant_id; user_id_field is Absent, "customer_id" or
\* "rider_id"
apply_scope_filters(rows, scopes, user_id_field) ==
    IF scopes.is_super_admin THEN rows
    ELSE LET byCity == IF scopes.city_ids # {}
                       THEN {o \in rows : orders[o].city_id \in scopes.city_ids}
                       ELSE rows
             byRestaurant ==
                 IF scopes.restaurant_ids # {}
                 THEN {o \in byCity :
                         orders[o].restaurant_id \in scopes.restaurant_ids}
                 ELSE byCity
         IN  IF user_id_field # Absent /\ scopes.is_self_only
             THEN {o \in byRestaurant : orders[o][user_id_field] = scopes.user_id}
             ELSE byRestaurant

ApplyScopeFilters(actor, user_id_field) ==
    Answer("apply_scope_filters", actor, 200, NULL, <<user_id_field>>,
           apply_scope_filters(OrderIds, Scopes(actor), user_id_field))

CanAssignRole(actor, role_code, target_city_id, target_restaurant_id) ==
    Answer("can_assign_role", actor, 200, NULL,
           <<role_code, target_city_id, target_restaurant_id>>,
           {can_assign_role(actor, role_code, target_city_id, target_restaurant_id)})

CheckRolePermission(actor, required_roles, city_id, restaurant_id) ==
    Answer("check_role_permission", actor, 200, NULL,
           <<required_roles, city_id, restaurant_id>>,
           {check_role_permission(actor, required_roles, city_id, restaurant_id)})

\* UserScopes.can_access_city / can_access_restaurant / can_access_user
CanAccess(actor, kind, id) ==
    Answer("can_access", actor, 200, id, <<kind>>,
           {CASE kind = "city" -> can_access_city(Scopes(actor), id)
              [] kind = "restaurant" -> can_access_restaurant(Scopes(actor), id)
              [] kind = "user" -> can_access_user(Scopes(actor), id)})

\* ------------------------------------------------------------------------
\* Access specification: a store of granted assignments, read by the scoped
\* endpoints and the permission functions
\* ------------------------------------------------------------------------

\* most assignments the subject account has received
MaxAssigned == 2

\* role codes a grant may name
GrantRoles == RoleCode \ {"restaurant_owner"}

\* (city_id, restaurant_id) pairs a grant may carry
ScopeInputs == {<<NULL, NULL>>, <<1, NULL>>, <<2, NULL>>, <<NULL, 1>>, <<1, 2>>}

\* the grants requested: self-scoped roles bare or with a city
GrantInputs ==
    {g \in GrantRoles \X ScopeInputs :
        RoleScopeType(g[1]) = "self" => g[2] \in {<<NULL, NULL>>, <<1, NULL>>}}

\* the grants assign_user_role accepts from the super admin
AcceptedGrants ==
    {g \in GrantInputs :
        ScopeConstraintError(RoleScopeType(g[1]), g[2][1], g[2][2]) = 0}

RECURSIVE GrantSets(_)
\* sets of at most k accepted grants, no two alike (the duplicate check)
GrantSets(k) ==
    IF k = 0 THEN {{}}
    ELSE LET smaller == GrantSets(k - 1) IN
         smaller \cup {S \cup {g} : S \in smaller, g \in AcceptedGrants}

RECURSIVE GrantedRows(_, _)
\* the rows left by granting every member of S to the subject, all of them
\* revoked afterwards when revoked is TRUE (revoke_user_role)
GrantedRows(S, revoked) ==
    IF S = {} THEN <<>>
    ELSE LET g == CHOOSE x \in S : TRUE
             row == UserRoleRow(StaffUser, g[1], g[2][1], g[2][2], SuperAdminUser, 0)
         IN  <<IF revoked
               THEN [row EXCEPT !.is_active = FALSE, !.revoked_at = 1]
               ELSE row>> \o GrantedRows(S \ {g}, revoked)

\* orders on file: placed by customers 1 and 2, riders set by
\* assign_rider_to_order
AccessOrders ==
    <<[NewOrder(1, 1, NULL) EXCEPT !.status = "ready"],
      [NewOrder(2, 2, 5) EXCEPT !.status = "assigned", !.rider_id = 5],
      [NewOrder(3, 1, 5) EXCEPT !.status = "delivered", !.rider_id = StaffUser]>>

InitAccess ==
    /\ \E S \in GrantSets(MaxAssigned), revoked \in BOOLEAN :
          user_roles = SeedRoles \o GrantedRows(S, revoked)
    /\ roles = [c \in RoleCode |-> TRUE]
    /\ shift_leads = <<>>
    /\ restaurants = InitRestaurants
    /\ refunds = {}
    /\ orders = AccessOrders
    /\ deliveries = [o \in DOMAIN AccessOrders |-> NoDelivery]
    /\ drivers = InitDrivers
    /\ clock = 1
    /\ req = <<>>
    /\ last = NoResponse

AccessCallers == {StaffUser}
QueryScopes == {<<NULL, NULL>>, <<1, NULL>>, <<2, NULL>>, <<NULL, 1>>, <<NULL, 3>>}
QueryStatus == {Absent, "ready"}
UserIdFields == {Absent, "customer_id", "rider_id"}
AssignRoleInputs ==
    {"super_admin", "city_admin", "dispatcher", "restaurant_admin", "customer",
     "no_such_role"}
TargetScopes == {<<NULL, NULL>>, <<1, NULL>>, <<2, NULL>>, <<1, 1>>}
RequiredRoleInputs ==
    {{"support"}, {"dispatcher"}, {"city_admin", "restaurant_admin"}}
PermissionScopes == {<<NULL, NULL>>, <<1, NULL>>, <<2, NULL>>, <<NULL, 1>>}
AccessTargets ==
    ({"city"} \X Cities) \cup ({"restaurant"} \X {1, 3}) \cup ({"user"} \X {1, StaffUser})

NextAccess ==
    \/ \E actor \in AccessCallers, oid \in OrderInputs : get_order_details(actor, oid)
    \/ \E actor \in AccessCallers, q \in QueryScopes, status \in QueryStatus :
          list_orders_scoped(actor, q[1], q[2], status)
    \/ \E actor \in AccessCallers, q \in QueryScopes : get_order_stats(actor, q[1], q[2])
    \/ \E actor \in AccessCallers : get_dashboard_stats(actor)
    \/ \E actor \in AccessCallers : list_cities(actor)
    \/ \E actor \in AccessCallers, f \in UserIdFields : ApplyScopeFilters(actor, f)
    \/ \E actor \in AccessCallers, role_code \in AssignRoleInputs, t \in TargetScopes :
          CanAssignRole(actor, role_code, t[1], t[2])
    \/ \E actor \in AccessCallers, required \in RequiredRoleInputs,
          t \in PermissionScopes : CheckRolePermission(actor, required, t[1], t[2])
    \/ \E actor \in AccessCallers, t \in AccessTargets : CanAccess(actor, t[1], t[2])

SpecAccess == InitAccess /\ [][NextAccess]_vars

\* ------------------------------------------------------------------------
\* Restaurant approval (app/api/v1/restaurants_rbac.py)
\* ------------------------------------------------------------------------

\* latest value of the clock in the specifications that write timestamps
\* without end
MaxClock == 2

NoSuchRestaurant == Cardinality(Restaurants) + 1

\* approve_restaurant, "Check permission": the role test before the lookup
ApprovalRoleCheck(scopes, restaurant_id) ==
    IF scopes.is_super_admin THEN TRUE
    ELSE IF has_role(scopes, {"restaurant_admin"})
        THEN restaurant_id \in scopes.restaurant_ids
                \/ has_role(scopes, {"city_admin"})
    ELSE has_role(scopes, {"city_admin"})

approve_restaurant(actor, restaurant_id, approve) ==
    LET op == "approve_restaurant"
        scopes == Scopes(actor)
        args == <<approve>> IN
    IF ~ApprovalRoleCheck(scopes, restaurant_id)
        THEN Reject(op, actor, 403, restaurant_id, args)
    ELSE IF restaurant_id \notin Restaurants
        THEN Reject(op, actor, 404, restaurant_id, args)
    ELSE IF /\ ~scopes.is_super_admin /\ has_role(scopes, {"city_admin"})
            /\ RestaurantCity(restaurant_id) \notin scopes.city_ids
        THEN Reject(op, actor, 403, restaurant_id, args)
    ELSE /\ approve => clock < MaxClock
         /\ restaurants' = [restaurants EXCEPT ![restaurant_id] =
               [is_approved |-> approve,
                approved_by |-> IF approve THEN actor ELSE NULL,
                approved_at |-> IF approve THEN clock + 1 ELSE NULL,
                is_active |-> IF approve THEN TRUE ELSE @.is_active]]
         /\ clock' = IF approve THEN clock + 1 ELSE clock
         /\ last' = Response(op, actor, 200, restaurant_id, args, {})
         /\ UNCHANGED <<user_roles, roles, shift_leads, refunds, orders,
                        deliveries, drivers, req>>

RestaurantInputs == Restaurants \cup {NoSuchRestaurant}

NextApproval ==
    \/ \E actor \in AccessCallers, r \in RestaurantInputs, approve \in BOOLEAN :
          approve_restaurant(actor, r, approve)
    \/ \E actor \in AccessCallers, oid \in OrderInputs : get_order_details(actor, oid)

SpecApproval == InitAccess /\ [][NextApproval]_vars

\* ------------------------------------------------------------------------
\* Grants and revocations (app/api/v1/rbac_admin.py)
\* ------------------------------------------------------------------------

\* the assignments that have the tuple (user, role, city_id, restaurant_id)
SameTuple(user_id, role_code, city_id, restaurant_id) ==
    {i \in DOMAIN user_roles :
        /\ user_roles[i].user_id = user_id
        /\ user_roles[i].role = role_code
        /\ user_roles[i].city_id = city_id
        /\ user_roles[i].restaurant_id = restaurant_id}

\* uq_user_role_scope at commit: NULLs never collide, so the constraint
\* refuses a second row only when city_id and restaurant_id are both set
UniqueScopeViolation(user_id, role_code, city_id, restaurant_id) ==
    /\ city_id # NULL /\ restaurant_id # NULL
    /\ SameTuple(user_id, role_code, city_id, restaurant_id) # {}

\* assign_user_role without the test for an existing active assignment
assign_user_role_NoDuplicateTest(actor, user_id, role_code, city_id, restaurant_id) ==
    LET op == "assign_user_role"
        args == <<role_code, city_id, restaurant_id>> IN
    IF ~can_assign_role(actor, role_code, city_id, restaurant_id)
        THEN Reject(op, actor, 403, user_id, args)
    ELSE IF role_code \notin RoleCode \/ ~roles[role_code]
        THEN Reject(op, actor, 404, user_id, args)
    ELSE IF ~UserExists(user_id) THEN Reject(op, actor, 404, user_id, args)
    ELSE IF ScopeConstraintError(RoleScopeType(role_code), city_id, restaurant_id) # 0
        THEN Reject(op, actor,
                    ScopeConstraintError(RoleScopeType(role_code), city_id,
                                         restaurant_id),
                    user_id, args)
    ELSE IF UniqueScopeViolation(user_id, role_code, city_id, restaurant_id)
        THEN Reject(op, actor, 500, user_id, args)
    ELSE /\ clock < MaxClock
         /\ user_roles' = Append(user_roles,
               UserRoleRow(user_id, role_code, city_id, restaurant_id, actor,
                           clock + 1))
         /\ clock' = clock + 1
         /\ last' = Response(op, actor, 201, user_id, args, {Len(user_roles) + 1})
         /\ UNCHANGED <<roles, shift_leads, restaurants, refunds, orders,
                        deliveries, drivers, req>>

assign_user_role(actor, user_id, role_code, city_id, restaurant_id) ==
    LET op == "assign_user_role"
        args == <<role_code, city_id, restaurant_id>> IN
    IF ~can_assign_role(actor, role_code, city_id, restaurant_id)
        THEN Reject(op, actor, 403, user_id, args)
    ELSE IF role_code \notin RoleCode \/ ~roles[role_code]
        THEN Reject(op, actor, 404, user_id, args)
    ELSE IF ~UserExists(user_id) THEN Reject(op, actor, 404, user_id, args)
    ELSE IF ScopeConstraintError(RoleScopeType(role_code), city_id, restaurant_id) # 0
        THEN Reject(op, actor,
                    ScopeConstraintError(RoleScopeType(role_code), city_id,
                                         restaurant_id),
                    user_id, args)
    ELSE IF \E i \in SameTuple(user_id, role_code, city_id, restaurant_id) :
                user_roles[i].is_active
        THEN Reject(op, actor, 400, user_id, args)
    ELSE IF UniqueScopeViolation(user_id, role_code, city_id, restaurant_id)
        THEN Reject(op, actor, 500, user_id, args)
    ELSE /\ clock < MaxClock
         /\ user_roles' = Append(user_roles,
               UserRoleRow(user_id, role_code, city_id, restaurant_id, actor,
                           clock + 1))
         /\ clock' = clock + 1
         /\ last' = Response(op, actor, 201, user_id, args, {Len(user_roles) + 1})
         /\ UNCHANGED <<roles, shift_leads, restaurants, refunds, orders,
                        deliveries, drivers, req>>

\* hours is <<min_hours_per_shift, max_hours_per_shift, min_hours_per_week,
\* max_hours_per_week>>
create_shift_lead(actor, user_id, city_id, hours) ==
    LET op == "create_shift_lead"
        scopes == Scopes(actor)
        args == <<city_id, hours>> IN
    IF /\ ~scopes.is_super_admin
       /\ (~has_role(scopes, {"city_admin"}) \/ city_id \notin scopes.city_ids)
        THEN Reject(op, actor, 403, user_id, args)
    ELSE IF ~UserExists(user_id) THEN Reject(op, actor, 404, user_id, args)
    ELSE IF city_id \notin Cities THEN Reject(op, actor, 404, user_id, args)
    ELSE IF \E i \in DOMAIN shift_leads :
                /\ shift_leads[i].user_id = user_id
                /\ shift_leads[i].city_id = city_id
                /\ shift_leads[i].is_active
        THEN Reject(op, actor, 400, user_id, args)
    ELSE IF hours[1] > hours[2] \/ hours[3] > hours[4]
        THEN Reject(op, actor, 400, user_id, args)
    ELSE /\ clock < MaxClock
         /\ shift_leads' = Append(shift_leads,
               [user_id |-> user_id, city_id |-> city_id, is_active |-> TRUE,
                hours |-> hours, created_at |-> clock + 1])
         /\ user_roles' =
               IF \E i \in DOMAIN user_roles :
                     /\ user_roles[i].user_id = user_id
                     /\ user_roles[i].role = "shift_lead"
                     /\ user_roles[i].city_id = city_id
                     /\ user_roles[i].is_active
               THEN user_roles
               ELSE Append(user_roles,
                      UserRoleRow(user_id, "shift_lead", city_id, NULL, actor,
                                  clock + 1))
         /\ clock' = clock + 1
         /\ last' = Response(op, actor, 201, user_id, args, {})
         /\ UNCHANGED <<roles, restaurants, refunds, orders, deliveries,
                        drivers, req>>

\* revoke_user_role deleting the row instead of marking it
revoke_user_role_Deleting(actor, user_role_id) ==
    LET op == "revoke_user_role"
        scopes == Scopes(actor) IN
    IF user_role_id \notin DOMAIN user_roles
        THEN Reject(op, actor, 404, user_role_id, <<>>)
    ELSE IF ~scopes.is_super_admin /\ ~has_role(scopes, {"city_admin"})
        THEN Reject(op, actor, 403, user_role_id, <<>>)
    ELSE IF ~scopes.is_super_admin
            /\ user_roles[user_role_id].city_id \notin scopes.city_ids
        THEN Reject(op, actor, 403, user_role_id, <<>>)
    ELSE /\ clock < MaxClock
         /\ user_roles' = SubSeq(user_roles, 1, user_role_id - 1)
                            \o SubSeq(user_roles, user_role_id + 1, Len(user_roles))
         /\ clock' = clock + 1
         /\ last' = Response(op, actor, 200, user_role_id, <<>>, {})
         /\ UNCHANGED <<roles, shift_leads, restaurants, refunds, orders,
                        deliveries, drivers, req>>

revoke_user_role(actor, user_role_id) ==
    LET op == "revoke_user_role"
        scopes == Scopes(actor) IN
    IF user_role_id \notin DOMAIN user_roles
        THEN Reject(op, actor, 404, user_role_id, <<>>)
    ELSE IF ~scopes.is_super_admin /\ ~has_role(scopes, {"city_admin"})
        THEN Reject(op, actor, 403, user_role_id, <<>>)
    ELSE IF ~scopes.is_super_admin
            /\ user_roles[user_role_id].city_id \notin scopes.city_ids
        THEN Reject(op, actor, 403, user_role_id, <<>>)
    ELSE /\ clock < MaxClock
         /\ user_roles' = [user_roles EXCEPT ![user_role_id].is_active = FALSE,
                                             ![user_role_id].revoked_at = clock + 1]
         /\ clock' = clock + 1
         /\ last' = Response(op, actor, 200, user_role_id, <<>>, {})
         /\ UNCHANGED <<roles, shift_leads, restaurants, refunds, orders,
                        deliveries, drivers, req>>

\* stores the grants start from: the bootstrap admin alone, or with the
\* staff account already city admin of city 1
GrantStores ==
    {SeedRoles,
     SeedRoles \o <<UserRoleRow(StaffUser, "city_admin", 1, NULL, SuperAdminUser, 0)>>}

InitGrant ==
    /\ user_roles \in GrantStores
    /\ roles = [c \in RoleCode |-> TRUE]
    /\ shift_leads = <<>>
    /\ restaurants = InitRestaurants
    /\ refunds = {}
    /\ orders = AccessOrders
    /\ deliveries = [o \in DOMAIN AccessOrders |-> NoDelivery]
    /\ drivers = InitDrivers
    /\ clock = 0
    /\ req = <<>>
    /\ last = NoResponse

GrantCallers == {StaffUser, SuperAdminUser}

\* (role_code, <<city_id, restaurant_id>>) of the grants requested
GrantRequests ==
    ({"super_admin"} \X {<<NULL, NULL>>, <<1, NULL>>})
    \cup ({"city_admin", "dispatcher"}
            \X {<<NULL, NULL>>, <<1, NULL>>, <<2, NULL>>, <<1, 2>>})
    \cup ({"restaurant_admin"} \X {<<NULL, NULL>>, <<1, 2>>})
    \cup ({"customer"} \X {<<NULL, NULL>>, <<1, NULL>>})

\* (user_id, city_id, hours) of the shift leads requested
NoSuchCity == Cardinality(Cities) + 1
ShiftLeadRequests ==
    ({StaffUser} \X {1, 2, NoSuchCity} \X {<<4, 12, 20, 60>>})
    \cup {<<StaffUser, 1, <<12, 4, 20, 60>> >>, <<NoSuchId, 1, <<4, 12, 20, 60>> >>}

RoleRowInputs == 1..(Len(user_roles) + 1)

NextGrant ==
    \/ \E actor \in GrantCallers, g \in GrantRequests :
          assign_user_role(actor, StaffUser, g[1], g[2][1], g[2][2])
    \/ \E actor \in GrantCallers :
          assign_user_role(actor, NoSuchId, "dispatcher", 1, NULL)
    \/ \E actor \in GrantCallers, q \in ShiftLeadRequests :
          create_shift_lead(actor, q[1], q[2], q[3])
    \/ \E actor \in GrantCallers, id \in RoleRowInputs : revoke_user_role(actor, id)

SpecGrant == InitGrant /\ [][NextGrant]_vars

\* ------------------------------------------------------------------------
\* Revocation followed by scoped requests
\* ------------------------------------------------------------------------

\* PATCH /rbac/roles/{role_id}: roles are named by their code here
toggle_role_status(actor, role_code, is_active) ==
    LET op == "toggle_role_status"
        args == <<is_active>> IN
    IF ~Scopes(actor).is_super_admin THEN Reject(op, actor, 403, role_code, args)
    ELSE IF role_code \notin RoleCode THEN Reject(op, actor, 404, role_code, args)
    ELSE /\ roles' = [roles EXCEPT ![role_code] = is_active]
         /\ last' = Response(op, actor, 200, role_code, args, {})
         /\ UNCHANGED <<user_roles, shift_leads, restaurants, refunds, orders,
                        deliveries, drivers, clock, req>>

\* one order waiting for a rider and one delivered, both in city 1
RevokeOrders ==
    <<[NewOrder(1, 1, 5) EXCEPT !.status = "ready"],
      [NewOrder(2, 1, 5) EXCEPT !.status = "delivered", !.rider_id = 5]>>

InitRevoke ==
    /\ user_roles = DispatchStaff
    /\ roles = [c \in RoleCode |-> TRUE]
    /\ shift_leads = <<>>
    /\ restaurants = InitRestaurants
    /\ refunds = {}
    /\ orders = RevokeOrders
    /\ deliveries = [o \in DOMAIN RevokeOrders |-> NoDelivery]
    /\ drivers = InitDrivers
    /\ clock = 0
    /\ req = <<>>
    /\ last = NoResponse

NoSuchRole == "no_such_role"
ToggleInputs == {"dispatcher", "support", NoSuchRole}
RegrantInputs == {"dispatcher", "support"}

NextRevoke ==
    \/ \E actor \in GrantCallers, id \in RoleRowInputs : revoke_user_role(actor, id)
    \/ \E actor \in GrantCallers, c \in ToggleInputs, b \in BOOLEAN :
          toggle_role_status(actor, c, b)
    \/ \E c \in RegrantInputs : assign_user_role(SuperAdminUser, StaffUser, c, 1, NULL)
    \/ \E oid \in OrderIds : assign_rider_to_order(StaffUser, oid, 5)
    \/ \E oid \in OrderIds : refund_order(StaffUser, oid)

SpecRevoke == InitRevoke /\ [][NextRevoke]_vars

\* ------------------------------------------------------------------------
\* The scope resolver applied to stored assignments
\* ------------------------------------------------------------------------

\* get_user_scopes(session, user_id) called for any id, as
\* check_role_permission, can_assign_role and the dependencies call it
ResolveScopes(user_id) ==
    Answer("get_user_scopes", NULL, 200, user_id, <<>>, {Scopes(user_id)})

\* the dependency of the scoped endpoints: get_current_user, then the
\* resolver for the authenticated account
get_current_user_scopes(actor) ==
    LET op == "get_current_user_scopes" IN
    IF ~UserExists(actor) \/ ~UserIsActive(actor)
        THEN Answer(op, actor, 401, actor, <<>>, {})
    ELSE Answer(op, actor, 200, actor, <<>>, {Scopes(actor)})

\* rows the user_roles table admits for an account: city_id and
\* restaurant_id are nullable and ck_user_role_scope_valid refuses nothing,
\* so a row need not agree with the scope type of its role
ScopeRowRoles == {"super_admin", "dispatcher", "restaurant_admin", "customer"}
ScopeRowScopes == {<<NULL, NULL>>, <<1, NULL>>, <<NULL, 1>>, <<1, 2>>}
ScopeRows == ScopeRowRoles \X ScopeRowScopes \X BOOLEAN

RECURSIVE ScopeRowSets(_)
\* sets of at most k rows that uq_user_role_scope admits together: two rows
\* of one role with the same city_id and restaurant_id, both set, collide
ScopeRowSets(k) ==
    IF k = 0 THEN {{}}
    ELSE LET smaller == ScopeRowSets(k - 1) IN
         smaller \cup
         {T \in {S \cup {g} : S \in smaller, g \in ScopeRows} :
             \A x, h \in T :
                 (x[2][1] # NULL /\ x[2][2] # NULL /\ h[1] = x[1] /\ h[2] = x[2])
                     => h = x}

RECURSIVE StoredRows(_)
\* the rows of S as stored for the staff account
StoredRows(S) ==
    IF S = {} THEN <<>>
    ELSE LET g == CHOOSE x \in S : TRUE
             row == UserRoleRow(StaffUser, g[1], g[2][1], g[2][2], SuperAdminUser, 0)
         IN  <<IF g[3] THEN row
               ELSE [row EXCEPT !.is_active = FALSE, !.revoked_at = 1]>>
             \o StoredRows(S \ {g})

\* the deactivated account was made dispatcher of city 1 while it was active
DeactivatedUserRoles ==
    <<UserRoleRow(DeactivatedUser, "dispatcher", 1, NULL, SuperAdminUser, 0)>>

InitScopes ==
    /\ \E S \in ScopeRowSets(MaxAssigned) :
          user_roles = SeedRoles \o DeactivatedUserRoles \o StoredRows(S)
    /\ roles = [c \in RoleCode |-> TRUE]
    /\ shift_leads = <<>>
    /\ restaurants = InitRestaurants
    /\ refunds = {}
    /\ orders = AccessOrders
    /\ deliveries = [o \in DOMAIN AccessOrders |-> NoDelivery]
    /\ drivers = InitDrivers
    /\ clock = 1
    /\ req = <<>>
    /\ last = NoResponse

ResolvedUsers == {StaffUser, DeactivatedUser, NoSuchId}
ScopeToggleInputs == {"dispatcher", NoSuchRole}

NextScopes ==
    \/ \E u \in ResolvedUsers : ResolveScopes(u)
    \/ \E u \in ResolvedUsers : get_current_user_scopes(u)
    \/ \E c \in ScopeToggleInputs, b \in BOOLEAN :
          toggle_role_status(SuperAdminUser, c, b)

SpecScopes == InitScopes /\ [][NextScopes]_vars

\* ------------------------------------------------------------------------
\* Pricing (app/services/pricing_service.py)
\* ------------------------------------------------------------------------

\* Python floats are IEEE 754 doubles.  A double is written [m, e] for the
\* value m * 2^e with m a natural number of exactly Precision bits (or 0
\* for 0.0).  Natural numbers beyond the machine integers are sequences of
\* limbs of LimbBits bits, least significant first.  Money is entered and
\* reported in hundredths.
Precision == 53
LimbBits == 15
Base == 2^LimbBits

RECURSIVE NatOf(_)
NatOf(n) == IF n = 0 THEN <<>> ELSE <<n % Base>> \o NatOf(n \div Base)

RECURSIVE IntOf(_)
IntOf(b) == IF b = <<>> THEN 0 ELSE Head(b) + Base * IntOf(Tail(b))

RECURSIVE Trim(_)
\* without the zero limbs at the most significant end
Trim(b) ==
    IF b = <<>> THEN <<>>
    ELSE IF b[Len(b)] = 0 THEN Trim(SubSeq(b, 1, Len(b) - 1))
    ELSE b

\* number of bits of a trimmed natural number
BitLen(b) ==
    IF b = <<>> THEN 0
    ELSE (Len(b) - 1) * LimbBits
         + (CHOOSE k \in 1..LimbBits : 2^(k - 1) <= b[Len(b)] /\ b[Len(b)] < 2^k)

\* bit i of b, the least significant being bit 1
Bit(b, i) ==
    LET l == ((i - 1) \div LimbBits) + 1
        o == (i - 1) % LimbBits
    IN  IF l > Len(b) THEN 0 ELSE (b[l] \div 2^o) % 2

RECURSIVE AddCarry(_, _, _)
AddCarry(a, b, c) ==
    IF a = <<>> /\ b = <<>> THEN (IF c = 0 THEN <<>> ELSE <<c>>)
    ELSE LET x == IF a = <<>> THEN 0 ELSE Head(a)
             y == IF b = <<>> THEN 0 ELSE Head(b)
             s == x + y + c
         IN  <<s % Base>> \o AddCarry(IF a = <<>> THEN <<>> ELSE Tail(a),
                                      IF b = <<>> THEN <<>> ELSE Tail(b),
                                      s \div Base)

NatAdd(a, b) == AddCarry(a, b, 0)

RECURSIVE MulLimb(_, _, _)
\* b * d + c for a single limb d
MulLimb(b, d, c) ==
    IF b = <<>> THEN (IF c = 0 THEN <<>> ELSE <<c>>)
    ELSE LET p == Head(b) * d + c IN
         <<p % Base>> \o MulLimb(Tail(b), d, p \div Base)

RECURSIVE NatMul(_, _)
NatMul(a, b) ==
    IF a = <<>> THEN <<>>
    ELSE NatAdd(MulLimb(b, Head(a), 0), <<0>> \o NatMul(Tail(a), b))

RECURSIVE DivSmall(_, _)
\* quotient and remainder of b by the small number d
DivSmall(b, d) ==
    IF b = <<>> THEN [q |-> <<>>, r |-> 0]
    ELSE LET hi == DivSmall(Tail(b), d)
             cur == hi.r * Base + Head(b)
         IN  [q |-> <<cur \div d>> \o hi.q, r |-> cur % d]

\* b * 2^k
ShiftLeft(b, k) ==
    [i \in 1..(k \div LimbBits) |-> 0] \o MulLimb(b, 2^(k % LimbBits), 0)

\* b / 2^drop rounded to the nearest natural number, a tie to the even one
RoundHalfEven(b, drop) ==
    LET hi == SubSeq(b, (drop \div LimbBits) + 1, Len(b))
        s == drop % LimbBits
        floor == [i \in 1..Len(hi) |->
                    (hi[i] \div 2^s)
                    + (IF i < Len(hi) THEN (hi[i + 1] % 2^s) * 2^(LimbBits - s)
                       ELSE 0)]
        half == drop > 0 /\ Bit(b, drop) = 1
        sticky == \E i \in 1..(drop - 1) : Bit(b, i) = 1
        odd == Bit(b, drop + 1) = 1
    IN  Trim(IF half /\ (sticky \/ odd) THEN NatAdd(floor, <<1>>) ELSE floor)

\* the double nearest to b * 2^e (round to nearest, ties to even)
Double(b, e) ==
    LET t == Trim(b)
        n == BitLen(t)
    IN  IF n = 0 THEN [m |-> <<>>, e |-> 0]
        ELSE IF n <= Precision
            THEN [m |-> ShiftLeft(t, Precision - n), e |-> e - (Precision - n)]
        ELSE LET r == RoundHalfEven(t, n - Precision) IN
             IF BitLen(r) > Precision
             THEN [m |-> RoundHalfEven(r, 1), e |-> e + (n - Precision) + 1]
             ELSE [m |-> r, e |-> e + (n - Precision)]

\* float of the decimal n / d (a literal, a Numeric column): the double
\* nearest to it
Float(n, d) ==
    LET dv == DivSmall(ShiftLeft(NatOf(n), 64), d) IN
    Double(NatAdd(MulLimb(dv.q, 2, 0), IF dv.r = 0 THEN <<>> ELSE <<1>>), 0 - 65)

FloatMul(x, y) ==
    IF x.m = <<>> \/ y.m = <<>> THEN Double(<<>>, 0)
    ELSE Double(NatMul(x.m, y.m), x.e + y.e)

FloatAdd(x, y) ==
    IF x.m = <<>> THEN y
    ELSE IF y.m = <<>> THEN x
    ELSE LET e == IF x.e < y.e THEN x.e ELSE y.e IN
         Double(NatAdd(ShiftLeft(x.m, x.e - e), ShiftLeft(y.m, y.e - e)), e)

\* a < b for natural numbers
NatLess(a, b) ==
    LET ta == Trim(a)
        tb == Trim(b)
    IN  IF Len(ta) # Len(tb) THEN Len(ta) < Len(tb)
        ELSE \E i \in 1..Len(ta) :
                /\ ta[i] < tb[i]
                /\ \A j \in (i + 1)..Len(ta) : ta[j] = tb[j]

RECURSIVE SubBorrow(_, _, _)
\* a - b - c for a >= b + c
SubBorrow(a, b, c) ==
    IF a = <<>> THEN <<>>
    ELSE LET y == IF b = <<>> THEN 0 ELSE Head(b)
             s == Head(a) - y - c
         IN  <<(s + Base) % Base>>
             \o SubBorrow(Tail(a), IF b = <<>> THEN <<>> ELSE Tail(b),
                          IF s < 0 THEN 1 ELSE 0)

FloatLess(x, y) ==
    IF y.m = <<>> THEN FALSE
    ELSE IF x.m = <<>> THEN TRUE
    ELSE LET e == IF x.e < y.e THEN x.e ELSE y.e IN
         NatLess(ShiftLeft(x.m, x.e - e), ShiftLeft(y.m, y.e - e))

\* x - y for x >= y
FloatSub(x, y) ==
    IF y.m = <<>> THEN x
    ELSE LET e == IF x.e < y.e THEN x.e ELSE y.e IN
         Double(SubBorrow(ShiftLeft(x.m, x.e - e), ShiftLeft(y.m, y.e - e), 0), e)

\* round(x, 2) of Python: the decimal with two places nearest to the exact
\* value of the double, a tie to the even one; given in hundredths
round(x) ==
    IF x.m = <<>> THEN 0
    ELSE LET n == NatMul(NatOf(100), x.m) IN
         IF x.e >= 0 THEN IntOf(ShiftLeft(n, x.e))
         ELSE IntOf(RoundHalfEven(n, 0 - x.e))

\* app/config.py, in hundredths
SERVICE_FEE_RATE == 10
DELIVERY_BASE_FEE == 200
DELIVERY_PER_KM_FEE == 60

\* Quote charging the delivery fee whatever the order type
Quote_FeeOnPickup(subtotal, distance_km, order_type) ==
    LET subtotal_f == Float(subtotal, 100)
        q_subtotal == round(subtotal_f)
        service_fee == round(FloatMul(subtotal_f, Float(SERVICE_FEE_RATE, 100)))
        delivery_fee ==
            IF distance_km # NULL
            THEN round(FloatAdd(Float(DELIVERY_BASE_FEE, 100),
                                FloatMul(Float(distance_km, 100),
                                         Float(DELIVERY_PER_KM_FEE, 100))))
            ELSE 0
        total == round(FloatAdd(FloatAdd(Float(q_subtotal, 100),
                                         Float(service_fee, 100)),
                                Float(delivery_fee, 100)))
    IN  [subtotal |-> q_subtotal, service_fee |-> service_fee,
         delivery_fee |-> delivery_fee, total |-> total]

\* Quote.__init__ for the subtotal the order endpoint computes (a float), a
\* distance in hundredths of a km (NULL: None) and an order type; the fields
\* in hundredths
QuoteFloat(subtotal_f, distance_km, order_type) ==
    LET q_subtotal == round(subtotal_f)
        service_fee == round(FloatMul(subtotal_f, Float(SERVICE_FEE_RATE, 100)))
        delivery_fee ==
            IF order_type = "delivery" /\ distance_km # NULL
            THEN round(FloatAdd(Float(DELIVERY_BASE_FEE, 100),
                                FloatMul(Float(distance_km, 100),
                                         Float(DELIVERY_PER_KM_FEE, 100))))
            ELSE 0
        total == round(FloatAdd(FloatAdd(Float(q_subtotal, 100),
                                         Float(service_fee, 100)),
                                Float(delivery_fee, 100)))
    IN  [subtotal |-> q_subtotal, service_fee |-> service_fee,
         delivery_fee |-> delivery_fee, total |-> total]

\* Quote.__init__ for a subtotal in hundredths, a distance in hundredths of
\* a km (NULL: None) and an order type; the fields in hundredths
Quote(subtotal, distance_km, order_type) ==
    LET subtotal_f == Float(subtotal, 100)
        q_subtotal == round(subtotal_f)
        service_fee == round(FloatMul(subtotal_f, Float(SERVICE_FEE_RATE, 100)))
        delivery_fee ==
            IF order_type = "delivery" /\ distance_km # NULL
            THEN round(FloatAdd(Float(DELIVERY_BASE_FEE, 100),
                                FloatMul(Float(distance_km, 100),
                                         Float(DELIVERY_PER_KM_FEE, 100))))
            ELSE 0
        total == round(FloatAdd(FloatAdd(Float(q_subtotal, 100),
                                         Float(service_fee, 100)),
                                Float(delivery_fee, 100)))
    IN  [subtotal |-> q_subtotal, service_fee |-> service_fee,
         delivery_fee |-> delivery_fee, total |-> total]

\* the quote of one request: subtotal and distance as the cart and order
\* endpoints compute them, then Quote
QuoteRequest ==
    /\ req # <<>>
    /\ LET in == Head(req) IN
       last' = Response("Quote", NULL, 200, NULL,
                        <<in.subtotal, in.distance_km, in.order_type>>,
                        {Quote(in.subtotal, in.distance_km, in.order_type)})
    /\ req' = Tail(req)
    /\ UNCHANGED <<user_roles, roles, shift_leads, restaurants, refunds,
                   orders, deliveries, drivers, clock>>

\* subtotals in hundredths, distances in hundredths of a km (NULL: not
\* known), order types of app/models/order.py
SubtotalInputs == {1, 5, 15, 25, 125, 135, 250, 999, 1000, 1999, 2675, 4995}
QuoteDistances == {NULL, 1, 250, 333, 420}
OrderTypes == {"delivery", "pickup"}

InitPricing ==
    /\ user_roles = SeedRoles
    /\ roles = [c \in RoleCode |-> TRUE]
    /\ shift_leads = <<>>
    /\ restaurants = InitRestaurants
    /\ refunds = {}
    /\ orders = <<>>
    /\ deliveries = <<>>
    /\ drivers = InitDrivers
    /\ clock = 0
    /\ \E s \in SubtotalInputs, d \in QuoteDistances, t \in OrderTypes :
          req = <<[subtotal |-> s, distance_km |-> d, order_type |-> t]>>
    /\ last = NoResponse

NextPricing == QuoteRequest

SpecPricing == InitPricing /\ [][NextPricing]_vars

\* ------------------------------------------------------------------------
\* App gates and order placement (app/core/deps.py,
\* app/api/apps/customer/orders.py)
\* ------------------------------------------------------------------------

\* the Authorization header of a request: none, a token that does not
\* decode, or a decoded token of a type for an account id
Credentials(kind, sub) == [kind |-> kind, sub |-> sub]

Gate(code, user, detail) == [code |-> code, user |-> user, detail |-> detail]

get_current_user(creds) ==
    IF creds.kind = "none" THEN Gate(401, NULL, "Not authenticated")
    ELSE IF creds.kind = "invalid" THEN Gate(401, NULL, "Invalid token")
    ELSE IF creds.kind # "access" THEN Gate(401, NULL, "Invalid token type")
    ELSE IF ~UserIsActive(creds.sub) THEN Gate(401, NULL, "Inactive user")
    ELSE Gate(0, creds.sub, "")

\* the gate testing the account's role before the token
get_current_customer_RoleFirst(creds) ==
    IF creds.sub \in Users /\ UserAccountRole(creds.sub) # "customer"
        THEN Gate(403, creds.sub, "Customer access required")
    ELSE get_current_user(creds)

get_current_customer(creds) ==
    LET g == get_current_user(creds) IN
    IF g.code # 0 THEN g
    ELSE IF UserAccountRole(g.user) # "customer"
        THEN Gate(403, g.user, "Customer access required")
    ELSE g

get_current_driver(creds) ==
    LET g == get_current_user(creds) IN
    IF g.code # 0 THEN g
    ELSE IF UserAccountRole(g.user) # "driver"
        THEN Gate(403, g.user, "Driver access required")
    ELSE g

\* customer app, GET /profile
get_profile(creds) ==
    LET op == "get_profile"
        g == get_current_customer(creds) IN
    IF g.code # 0 THEN Answer(op, g.user, g.code, NULL, <<creds>>, {g.detail})
    ELSE Answer(op, g.user, 200, g.user, <<creds>>, {UserAccountRole(g.user)})

\* rider app, GET /profile
get_driver_profile(creds) ==
    LET op == "get_driver_profile"
        g == get_current_driver(creds) IN
    IF g.code # 0 THEN Answer(op, g.user, g.code, NULL, <<creds>>, {g.detail})
    ELSE Answer(op, g.user, 200, g.user, <<creds>>, {DriverOf(g.user)})

\* q.total + data.tip as the Numeric(10, 2) column total keeps it, in
\* hundredths; the tip may be negative
OrderTotal(q_total, tip) ==
    LET t == Float(q_total, 100) IN
    IF tip >= 0 THEN round(FloatAdd(t, Float(tip, 100)))
    ELSE LET p == Float(0 - tip, 100) IN
         IF FloatLess(t, p) THEN 0 - round(FloatSub(p, t))
         ELSE round(FloatSub(t, p))

\* the Order create_order constructs from the request and its quote; the
\* constructor is given no city_id and no rider_id
PlacedOrder(customer_id, in, q) ==
    [city_id |-> NULL, restaurant_id |-> in.restaurant_id,
     customer_id |-> customer_id, rider_id |-> NULL, status |-> "created",
     distance_km |-> in.distance_km, order_type |-> in.order_type,
     subtotal |-> q.subtotal, service_fee |-> q.service_fee,
     delivery_fee |-> q.delivery_fee, tip |-> in.tip,
     total |-> OrderTotal(q.total, in.tip)]

\* customer app, POST /orders for the request in flight: one line of
\* quantity items at a price in hundredths (found: the item is on the
\* menu), a tip in hundredths, and the distance haversine_km gave (NULL when
\* a coordinate is missing or the order is a pickup).  orders.city_id is
\* nullable in the table the migration rbac_001 alters and NOT NULL in the
\* table the model declares: the flush stores the row or fails.
create_order ==
    /\ req # <<>>
    /\ LET in == Head(req)
           op == "create_order"
           g == get_current_customer(in.creds)
           order_id == Len(orders) + 1
           subtotal == FloatMul(Float(in.price, 100), Float(in.quantity, 1))
           q == QuoteFloat(subtotal, in.distance_km, in.order_type)
       IN
       IF g.code # 0
           THEN /\ last' = Response(op, g.user, g.code, NULL, <<in>>, {g.detail})
                /\ UNCHANGED <<orders, deliveries>>
       ELSE IF ~in.found
           THEN /\ last' = Response(op, g.user, 400, NULL, <<in>>, {})
                /\ UNCHANGED <<orders, deliveries>>
       ELSE \/ /\ orders' = Append(orders, PlacedOrder(g.user, in, q))
               /\ deliveries' = Append(deliveries, NoDelivery)
               /\ last' = Response(op, g.user, 201, order_id, <<in>>, {order_id})
            \/ /\ last' = Response(op, g.user, 500, NULL, <<in>>, {})
               /\ UNCHANGED <<orders, deliveries>>
    /\ req' = Tail(req)
    /\ UNCHANGED <<user_roles, roles, shift_leads, restaurants, refunds,
                   drivers, clock>>

\* credentials tried: no header, an undecodable token, a refresh token, and
\* access tokens of a customer, an owner, a courier, the deactivated
\* account and an account that does not exist
AppCredentials ==
    {Credentials("none", NULL), Credentials("invalid", NULL),
     Credentials("refresh", 1), Credentials("refresh", 5)}
    \cup {Credentials("access", u) : u \in {1, 3, 5, DeactivatedUser, NoSuchId}}

\* order lines: price in hundredths and quantity; tips in hundredths
OrderLines ==
    {[found |-> TRUE, price |-> 10, quantity |-> 3],
     [found |-> TRUE, price |-> 999, quantity |-> 1],
     [found |-> FALSE, price |-> 0, quantity |-> 1]}
TipInputs == {0 - 5000, 0 - 100, 0, 150}

\* order type and distance: a delivery with and without coordinates, a pickup
OrderPlaces ==
    {<<"delivery", 250>>, <<"delivery", NULL>>, <<"pickup", NULL>>}

OrderRequests ==
    {[creds |-> c, restaurant_id |-> r, order_type |-> p[1],
      distance_km |-> p[2], found |-> l.found, price |-> l.price,
      quantity |-> l.quantity, tip |-> t] :
        c \in AppCredentials, r \in {1, 3}, p \in OrderPlaces,
        l \in OrderLines, t \in TipInputs}

InitOrdering ==
    /\ user_roles = DispatchStaff
    /\ roles = [c \in RoleCode |-> TRUE]
    /\ shift_leads = <<>>
    /\ restaurants = InitRestaurants
    /\ refunds = {}
    /\ orders = <<>>
    /\ deliveries = <<>>
    /\ drivers = InitDrivers
    /\ clock = 0
    /\ \E in \in OrderRequests : req = <<in>>
    /\ last = NoResponse

NextOrdering ==
    \/ create_order
    \/ \E c \in AppCredentials : get_profile(c)
    \/ \E c \in AppCredentials : get_driver_profile(c)
    \/ \E a \in {3, 4}, o \in OrderInputs : confirm_order(a, o)
    \/ \E a \in {1}, o \in OrderInputs : customer_cancel_order(a, o)
    \/ \E o \in OrderInputs : assign_rider_to_order(SuperAdminUser, o, 5)
    \/ \E a \in {StaffUser, SuperAdminUser}, o \in OrderInputs : refund_order(a, o)

SpecOrdering == InitOrdering /\ [][NextOrdering]_vars

\* ------------------------------------------------------------------------
\* Restaurant visibility and activation (app/api/apps/customer/restaurants.py,
\* app/api/apps/restaurant/profile.py, app/api/v1/restaurants_rbac.py)
\* ------------------------------------------------------------------------

\* customer app, GET /restaurants (no search; limit and offset keep every row)
list_restaurants(actor) ==
    LET op == "list_restaurants" IN
    IF UserAccountRole(actor) # "customer" THEN Answer(op, actor, 403, NULL, <<>>, {})
    ELSE Answer(op, actor, 200, NULL, <<>>,
                {r \in Restaurants : restaurants[r].is_active})

\* customer app, GET /restaurants/{restaurant_id}
get_restaurant_details(actor, restaurant_id) ==
    LET op == "get_restaurant_details" IN
    IF UserAccountRole(actor) # "customer"
        THEN Answer(op, actor, 403, restaurant_id, <<>>, {})
    ELSE IF restaurant_id \notin Restaurants
        THEN Answer(op, actor, 404, restaurant_id, <<>>, {})
    ELSE Answer(op, actor, 200, restaurant_id, <<>>, {restaurant_id})

\* list_restaurants_scoped, "Apply scope-based filters"
RestaurantScopeFilter(actor, scopes) ==
    IF scopes.is_super_admin THEN Restaurants
    ELSE IF has_role(scopes, {"city_admin", "support"})
        THEN {r \in Restaurants : RestaurantCity(r) \in scopes.city_ids}
    ELSE IF has_role(scopes, {"restaurant_admin"})
        THEN Restaurants \cap scopes.restaurant_ids
    ELSE IF has_role(scopes, {"restaurant_owner"})
        THEN {r \in Restaurants : RestaurantOwner(r) = actor}
    ELSE {r \in Restaurants : restaurants[r].is_approved /\ restaurants[r].is_active}

\* GET /restaurants with the optional city_id and pending_approval
\* ("true", "false" or Absent)
list_restaurants_scoped(actor, city_id, pending_approval) ==
    LET op == "list_restaurants_scoped"
        scopes == Scopes(actor)
        args == <<city_id, pending_approval>> IN
    IF city_id # NULL /\ ~scopes.is_super_admin /\ city_id \notin scopes.city_ids
        THEN Answer(op, actor, 403, NULL, args, {})
    ELSE Answer(op, actor, 200, NULL, args,
                {r \in RestaurantScopeFilter(actor, scopes) :
                    /\ city_id # NULL => RestaurantCity(r) = city_id
                    /\ pending_approval = "true" => ~restaurants[r].is_approved
                    /\ pending_approval = "false" => restaurants[r].is_approved})

\* PATCH /restaurants/{restaurant_id}/toggle-active
toggle_restaurant_active(actor, restaurant_id, is_active) ==
    LET op == "toggle_restaurant_active"
        scopes == Scopes(actor)
        args == <<is_active>> IN
    IF restaurant_id \notin Restaurants
        THEN Reject(op, actor, 404, restaurant_id, args)
    ELSE IF /\ ~scopes.is_super_admin
            /\ IF has_role(scopes, {"city_admin"})
                  THEN RestaurantCity(restaurant_id) \notin scopes.city_ids
               ELSE IF RestaurantOwner(restaurant_id) = actor
                  THEN ~restaurants[restaurant_id].is_approved
               ELSE TRUE
        THEN Reject(op, actor, 403, restaurant_id, args)
    ELSE /\ restaurants' = [restaurants EXCEPT ![restaurant_id].is_active = is_active]
         /\ last' = Response(op, actor, 200, restaurant_id, args, {})
         /\ UNCHANGED <<user_roles, roles, shift_leads, refunds, orders,
                        deliveries, drivers, clock, req>>

\* restaurant app, PATCH /{restaurant_id}: has_is_active tells whether the
\* body carries is_active (the other fields of the body are not modelled)
update_restaurant(actor, restaurant_id, has_is_active, is_active) ==
    LET op == "update_restaurant"
        args == <<has_is_active, is_active>> IN
    IF UserAccountRole(actor) # "restaurant_owner"
        THEN Reject(op, actor, 403, restaurant_id, args)
    ELSE IF restaurant_id \notin Restaurants \/ RestaurantOwner(restaurant_id) # actor
        THEN Reject(op, actor, 404, restaurant_id, args)
    ELSE /\ restaurants' =
               IF has_is_active
               THEN [restaurants EXCEPT ![restaurant_id].is_active = is_active]
               ELSE restaurants
         /\ last' = Response(op, actor, 200, restaurant_id, args, {})
         /\ UNCHANGED <<user_roles, roles, shift_leads, refunds, orders,
                        deliveries, drivers, clock, req>>

\* restaurants as create_restaurant stores them; a super admin and, in one
\* store, a city admin of city 1
InitListing ==
    /\ user_roles \in GrantStores
    /\ roles = [c \in RoleCode |-> TRUE]
    /\ shift_leads = <<>>
    /\ restaurants = InitRestaurants
    /\ refunds = {}
    /\ orders = <<>>
    /\ deliveries = <<>>
    /\ drivers = InitDrivers
    /\ clock = 0
    /\ req = <<>>
    /\ last = NoResponse

\* a customer, an owner, the staff account and the super admin
ListingCallers == {1, 3, StaffUser, SuperAdminUser}

NextListing ==
    \/ \E a \in {1, 3} : list_restaurants(a)
    \/ \E a \in {1, 3}, r \in RestaurantInputs : get_restaurant_details(a, r)
    \/ \E a \in ListingCallers, c \in {NULL, 1}, p \in {Absent, "true", "false"} :
          list_restaurants_scoped(a, c, p)
    \/ \E a \in ListingCallers, r \in RestaurantInputs, approve \in BOOLEAN :
          approve_restaurant(a, r, approve)
    \/ \E a \in ListingCallers, r \in RestaurantInputs, b \in BOOLEAN :
          toggle_restaurant_active(a, r, b)
    \/ \E a \in {1, 3}, r \in RestaurantInputs, h \in BOOLEAN, b \in BOOLEAN :
          update_restaurant(a, r, h, b)

SpecListing == InitListing /\ [][NextListing]_vars

\* ------------------------------------------------------------------------
\* Concurrent accept_delivery (app/api/apps/rider/deliveries.py): the
\* request loads the driver and the order in its own session, checks the
\* loaded copies, adds the Delivery and sets the status on the loaded order,
\* and commit() flushes the INSERT and the UPDATE.
\* ------------------------------------------------------------------------

\* the checks of accept_delivery on what the request loaded
AcceptCheck(r) ==
    /\ req[r].pc = "read"
    /\ LET actor == req[r].actor
           code == IF UserAccountRole(actor) # "driver" THEN 403
                   ELSE IF DriverOf(actor) = NULL \/ ~drivers[actor].is_available
                       THEN 400
                   ELSE IF req[r].seen # "ready" THEN 400
                   ELSE 0
       IN  req' = [req EXCEPT ![r].code = code,
                              ![r].pc = IF code # 0 THEN "done" ELSE "checked"]
    /\ UNCHANGED <<orders, refunds, raceFrame>>

\* the commit on a table whose order_id is not unique: the INSERT always
\* goes through
CommitDelivery_NoUniqueOrder(r) ==
    /\ req[r].pc = "written"
    /\ deliveries' = [deliveries EXCEPT ![req[r].oid] =
             [NoDelivery EXCEPT !.driver_id = DriverOf(req[r].actor)]]
    /\ orders' = SetStatus(req[r].oid, "assigned")
    /\ req' = [req EXCEPT ![r].overwrote = orders[req[r].oid].status,
                          ![r].code = 201, ![r].pc = "done"]
    /\ UNCHANGED <<user_roles, roles, shift_leads, restaurants, refunds,
                   drivers, clock, last>>

\* await session.commit(): INSERT INTO deliveries fails on the unique
\* order_id when the order has a delivery, and the transaction is rolled
\* back (500); otherwise the row is inserted and the status updated
CommitDelivery(r) ==
    /\ req[r].pc = "written"
    /\ IF DeliveryExists(req[r].oid)
       THEN /\ req' = [req EXCEPT ![r].code = 500, ![r].pc = "done"]
            /\ UNCHANGED <<orders, deliveries>>
       ELSE /\ deliveries' = [deliveries EXCEPT ![req[r].oid] =
                    [NoDelivery EXCEPT !.driver_id = DriverOf(req[r].actor)]]
            /\ orders' = SetStatus(req[r].oid, "assigned")
            /\ req' = [req EXCEPT ![r].overwrote = orders[req[r].oid].status,
                                  ![r].code = 201, ![r].pc = "done"]
    /\ UNCHANGED <<user_roles, roles, shift_leads, restaurants, refunds,
                   drivers, clock, last>>

\* two orders of restaurant 1, the first ready, the second ready or still
\* in preparation; couriers 5 and 6 with a profile, 6 available or not
InitAccept ==
    /\ user_roles = DispatchStaff
    /\ roles = [c \in RoleCode |-> TRUE]
    /\ shift_leads = <<>>
    /\ restaurants = InitRestaurants
    /\ refunds = {}
    /\ \E s \in {"ready", "preparing"} :
          orders = <<[NewOrder(1, 1, 5) EXCEPT !.status = "ready"],
                     [NewOrder(1, 2, 5) EXCEPT !.status = s]>>
    /\ deliveries = <<NoDelivery, NoDelivery>>
    /\ \E b \in BOOLEAN :
          drivers = [DeliveryDrivers EXCEPT ![5].is_available = TRUE,
                                            ![6].is_available = b]
    /\ clock = 0
    /\ req = [r \in ReqIds |-> IdleRequest]
    /\ last = NoResponse

NextAccept ==
    \/ \E r \in ReqIds, actor \in {3, 5, 6}, oid \in OrderIds :
          StartRequest(r, "accept_delivery", actor, oid)
    \/ \E r \in ReqIds : ReadOrder(r)
    \/ \E r \in ReqIds : AcceptCheck(r)
    \/ \E r \in ReqIds : WriteOrder(r)
    \/ \E r \in ReqIds : CommitDelivery(r)

SpecAccept == InitAccept /\ [][NextAccept]_vars

\* ------------------------------------------------------------------------
\* Concurrent assign_user_role (app/api/v1/rbac_admin.py): each request
\* runs its checks, the existence check included, in its own session, then
\* adds the row and commits.
\* ------------------------------------------------------------------------

IdleAssign ==
    [pc |-> "idle", actor |-> NULL, user_id |-> NULL, role_code |-> Absent,
     city_id |-> NULL, restaurant_id |-> NULL, code |-> 0]

\* the request arrives
AssignStart(r, actor, user_id, role_code, city_id, restaurant_id) ==
    /\ req[r].pc = "idle"
    /\ req' = [req EXCEPT ![r] =
                 [pc |-> "started", actor |-> actor, user_id |-> user_id,
                  role_code |-> role_code, city_id |-> city_id,
                  restaurant_id |-> restaurant_id, code |-> 0]]
    /\ UNCHANGED <<user_roles, roles, shift_leads, restaurants, refunds,
                   orders, deliveries, drivers, clock, last>>

\* the permission, role, user, scope and "already exists" checks, on the
\* rows committed so far
AssignCheck(r) ==
    /\ req[r].pc = "started"
    /\ LET q == req[r]
           scope == ScopeConstraintError(RoleScopeType(q.role_code), q.city_id,
                                         q.restaurant_id)
           code ==
               IF ~can_assign_role(q.actor, q.role_code, q.city_id, q.restaurant_id)
                   THEN 403
               ELSE IF q.role_code \notin RoleCode \/ ~roles[q.role_code] THEN 404
               ELSE IF ~UserExists(q.user_id) THEN 404
               ELSE IF scope # 0 THEN scope
               ELSE IF \E i \in SameTuple(q.user_id, q.role_code, q.city_id,
                                          q.restaurant_id) : user_roles[i].is_active
                   THEN 400
               ELSE 0
       IN  req' = [req EXCEPT ![r].code = code,
                              ![r].pc = IF code # 0 THEN "done" ELSE "checked"]
    /\ UNCHANGED <<user_roles, roles, shift_leads, restaurants, refunds,
                   orders, deliveries, drivers, clock, last>>

\* session.add(user_role); await session.commit(): the INSERT fails only on
\* uq_user_role_scope
AssignCommit(r) ==
    /\ req[r].pc = "checked"
    /\ LET q == req[r] IN
       IF UniqueScopeViolation(q.user_id, q.role_code, q.city_id, q.restaurant_id)
       THEN /\ req' = [req EXCEPT ![r].code = 500, ![r].pc = "done"]
            /\ UNCHANGED <<user_roles, clock>>
       ELSE /\ user_roles' = Append(user_roles,
                  UserRoleRow(q.user_id, q.role_code, q.city_id, q.restaurant_id,
                              q.actor, clock + 1))
            /\ clock' = clock + 1
            /\ req' = [req EXCEPT ![r].code = 201, ![r].pc = "done"]
    /\ UNCHANGED <<roles, shift_leads, restaurants, refunds, orders,
                   deliveries, drivers, last>>

InitAssign ==
    /\ user_roles \in GrantStores
    /\ roles = [c \in RoleCode |-> TRUE]
    /\ shift_leads = <<>>
    /\ restaurants = InitRestaurants
    /\ refunds = {}
    /\ orders = <<>>
    /\ deliveries = <<>>
    /\ drivers = InitDrivers
    /\ clock = 0
    /\ req = [r \in ReqIds |-> IdleAssign]
    /\ last = NoResponse

\* (role_code, city_id, restaurant_id) of the concurrent grants
AssignRequests ==
    {<<"dispatcher", 1, NULL>>, <<"super_admin", NULL, NULL>>,
     <<"restaurant_admin", 1, 2>>, <<"restaurant_admin", NULL, 2>>}

NextAssign ==
    \/ \E r \in ReqIds, actor \in GrantCallers, g \in AssignRequests :
          AssignStart(r, actor, StaffUser, g[1], g[2], g[3])
    \/ \E r \in ReqIds : AssignCheck(r)
    \/ \E r \in ReqIds : AssignCommit(r)

SpecAssign == InitAssign /\ [][NextAssign]_vars

\* ------------------------------------------------------------------------
\* Order lifecycle properties
\* ------------------------------------------------------------------------

\* the lifecycle graph of the order state machine
LifecycleEdges ==
    {<<"created", "confirmed">>, <<"confirmed", "preparing">>,
     <<"preparing", "ready">>, <<"ready", "assigned">>,
     <<"assigned", "picked_up">>, <<"picked_up", "delivered">>}
    \cup {<<s, "cancelled">> :
            s \in {"created", "confirmed", "preparing", "ready", "assigned"}}
    \cup {<<s, "refunded">> : s \in {"delivered", "cancelled"}}

TerminalStatus == {"delivered", "cancelled", "refunded"}

\* C1: every change of an order's status is an edge of the lifecycle graph;
\* a request for any other move leaves the status as it was.
C1_EveryStatusChangeIsAnEdge ==
    [][\A o \in OrderIds :
         orders'[o].status # orders[o].status
            => <<orders[o].status, orders'[o].status>> \in LifecycleEdges]_vars

\* C2: once an order is delivered, cancelled or refunded its status changes
\* no more, except for the single move delivered/cancelled -> refunded.
C2_TerminalStatusIsFinal ==
    [][\A o \in OrderIds :
         orders[o].status \in TerminalStatus
            => \/ orders'[o].status = orders[o].status
               \/ /\ orders[o].status \in {"delivered", "cancelled"}
                  /\ orders'[o].status = "refunded"]_vars

\* ------------------------------------------------------------------------
\* Concurrent transitions
\* ------------------------------------------------------------------------

Succeeded(r) == req[r].pc = "done" /\ req[r].code = 200

\* C3: of two confirm_order requests on the same order at most one succeeds;
\* the transition is never applied twice.
C3_ConfirmAppliedOnce ==
    \A r1, r2 \in ReqIds :
        (/\ r1 # r2
         /\ req[r1].op = "confirm_order" /\ req[r2].op = "confirm_order"
         /\ req[r1].oid = req[r2].oid)
        => ~(Succeeded(r1) /\ Succeeded(r2))

\* C4: a request that reports success has overwritten exactly the status
\* value it checked.
C4_CheckAndWriteAtomic ==
    \A r \in ReqIds : Succeeded(r) => req[r].overwrote = req[r].seen

\* ------------------------------------------------------------------------
\* Access properties (SpecAccess)
\* ------------------------------------------------------------------------

\* the four grounds of access to an order, side by side
OrderInScopes(actor, order) ==
    LET scopes == Scopes(actor) IN
    \/ scopes.is_super_admin
    \/ order.city_id \in scopes.city_ids
    \/ order.restaurant_id \in scopes.restaurant_ids
    \/ /\ scopes.is_self_only
       /\ (order.customer_id = actor \/ order.rider_id = actor)

\* C5: get_order_details on an existing order answers 200 exactly when the
\* actor is super admin, or the order's city is in city_ids, or its restaurant
\* is in restaurant_ids, or the actor is self-scoped and is the order's
\* customer or rider; otherwise it answers 403.
C5_OrderAccessIffInScopes ==
    (last.op = "get_order_details" /\ OrderExists(last.target)) =>
        /\ last.code \in {200, 403}
        /\ last.code = 200 <=> OrderInScopes(last.actor, orders[last.target])

\* a customer holding only self-scoped roles was refused an order of others
C5_CustomerDeniedForeignOrder ==
    /\ last.op = "get_order_details" /\ last.code = 403
    /\ Scopes(last.actor).role_codes = {"customer"}
    /\ orders[last.target].customer_id # last.actor
    /\ orders[last.target].rider_id # last.actor

NoActiveAssignment(u) == ActiveUserRoles(user_roles, roles, u) = {}

\* C6: an actor without any active assignment is denied by every access
\* decision and gets the empty set from every narrowing path.
C6_DenyByDefault ==
    (last.op # "none" /\ NoActiveAssignment(last.actor)) =>
        CASE last.op \in {"can_access", "can_assign_role", "check_role_permission"}
                -> last.result = {FALSE}
          [] last.op = "get_order_details" -> last.code # 200
          [] last.op \in {"apply_scope_filters", "list_orders_scoped", "list_cities"}
                -> last.result = {}
          [] OTHER -> TRUE

ScopedListings == {"list_orders_scoped", "get_order_stats", "get_dashboard_stats"}

\* C7: every order a scoped listing or aggregate returns or counts for an
\* actor who is not super admin is an order ensure_order_access allows to
\* that actor, whatever the assignments and the optional parameters.
C7_ListingsStayInScope ==
    (last.op \in ScopedListings /\ last.code = 200
        /\ ~Scopes(last.actor).is_super_admin) =>
        \A o \in last.result : ensure_order_access(Scopes(last.actor), orders[o])

\* an actor with two roles got statistics over some orders, not all
C7_StatsNarrowed ==
    /\ last.op = "get_order_stats" /\ last.code = 200
    /\ ~Scopes(last.actor).is_super_admin
    /\ Cardinality(Scopes(last.actor).role_codes) = 2
    /\ last.result # {} /\ last.result # OrderIds

\* C8: for an actor who is not super admin, list_orders_scoped without
\* optional filters returns exactly the orders ensure_order_access allows.
C8_ListEqualsSingleRecordCheck ==
    (last.op = "list_orders_scoped" /\ last.args = <<NULL, NULL, Absent>>
        /\ ~Scopes(last.actor).is_super_admin) =>
        /\ last.code = 200
        /\ last.result =
             {o \in OrderIds : ensure_order_access(Scopes(last.actor), orders[o])}

\* C9: can_assign_role is true exactly when the assigner is super admin, or
\* holds city_admin, the role exists with scope type city, and the target
\* city is given and is one of the assigner's cities.
C9_CanAssignRoleIff ==
    last.op = "can_assign_role" =>
        LET scopes == Scopes(last.actor)
            role_code == last.args[1]
            target_city_id == last.args[2]
        IN  last.result = {TRUE} <=>
              \/ scopes.is_super_admin
              \/ /\ "city_admin" \in scopes.role_codes
                 /\ role_code \in RoleCode
                 /\ RoleScopeType(role_code) = "city"
                 /\ target_city_id # NULL
                 /\ target_city_id \in scopes.city_ids

\* a city admin was refused a city-scoped role for a city that is not theirs
C9_CityAdminDeniedOtherCity ==
    /\ last.op = "can_assign_role" /\ last.result = {FALSE}
    /\ "city_admin" \in Scopes(last.actor).role_codes
    /\ last.args[1] \in RoleCode /\ RoleScopeType(last.args[1]) = "city"
    /\ last.args[2] # NULL /\ last.args[2] \notin Scopes(last.actor).city_ids

\* an active assignment of one of the roles to u for that very city
HoldsRoleForCity(u, codes, city_id) ==
    \E i \in ActiveUserRoles(user_roles, roles, u) :
        user_roles[i].role \in codes /\ user_roles[i].city_id = city_id

\* C10: a user who is not super admin passes check_role_permission for
\* city-scoped roles and a city, or can_assign_role for a city, only when
\* holding one of those roles (city_admin for can_assign_role) for that city.
C10_RolePowerOnlyInItsCity ==
    ~Scopes(last.actor).is_super_admin =>
        /\ (/\ last.op = "check_role_permission"
            /\ last.result = {TRUE}
            /\ last.args[2] # NULL
            /\ \A c \in last.args[1] : RoleScopeType(c) = "city")
              => HoldsRoleForCity(last.actor, last.args[1], last.args[2])
        /\ (last.op = "can_assign_role" /\ last.result = {TRUE})
              => HoldsRoleForCity(last.actor, {"city_admin"}, last.args[2])

\* ------------------------------------------------------------------------
\* Scope precedence (SpecApproval)
\* ------------------------------------------------------------------------

\* an active restaurant-scoped assignment of u for that very restaurant
HoldsRestaurantAssignment(u, restaurant_id) ==
    \E i \in ActiveUserRoles(user_roles, roles, u) :
        /\ RoleScopeType(user_roles[i].role) = "restaurant"
        /\ user_roles[i].restaurant_id = restaurant_id

\* an active city-scoped assignment of u for that very city
HoldsCityAssignment(u, city_id) ==
    \E i \in ActiveUserRoles(user_roles, roles, u) :
        /\ RoleScopeType(user_roles[i].role) = "city"
        /\ user_roles[i].city_id = city_id

\* C11: a user who is not super admin approves a restaurant only with a
\* restaurant assignment for that restaurant or a city assignment for its
\* city, and reads an order only with a restaurant assignment for its
\* restaurant, a city assignment for its city, or as its customer or rider;
\* restaurant_ids holds only the restaurants of restaurant assignments. A
\* city_id carried by a restaurant assignment grants nothing.
C11_AssignmentGrantsOnlyItsScope ==
    ~Scopes(last.actor).is_super_admin =>
        /\ (last.op = "approve_restaurant" /\ last.code = 200) =>
              \/ HoldsRestaurantAssignment(last.actor, last.target)
              \/ HoldsCityAssignment(last.actor, RestaurantCity(last.target))
        /\ (last.op = "get_order_details" /\ last.code = 200) =>
              \/ HoldsRestaurantAssignment(last.actor, orders[last.target].restaurant_id)
              \/ HoldsCityAssignment(last.actor, orders[last.target].city_id)
              \/ orders[last.target].customer_id = last.actor
              \/ orders[last.target].rider_id = last.actor
        /\ \A r \in Scopes(last.actor).restaurant_ids :
              HoldsRestaurantAssignment(last.actor, r)

\* the admin of one restaurant, assigned with its city as a hint, was refused
\* the approval of another restaurant of that city
C11_OtherRestaurantOfCityRefused ==
    /\ last.op = "approve_restaurant" /\ last.code = 403
    /\ last.target \in Restaurants
    /\ \E i \in ActiveUserRoles(user_roles, roles, last.actor) :
          /\ ActiveUserRoles(user_roles, roles, last.actor) = {i}
          /\ user_roles[i].role = "restaurant_admin"
          /\ user_roles[i].restaurant_id # last.target
          /\ user_roles[i].city_id = RestaurantCity(user_roles[i].restaurant_id)
          /\ user_roles[i].city_id = RestaurantCity(last.target)

\* ------------------------------------------------------------------------
\* Who may move an order, and from where (SpecDelivery, Spec)
\* ------------------------------------------------------------------------

OwnerOps == {"confirm_order", "mark_preparing", "mark_ready"}
CourierOps == {"mark_picked_up", "mark_delivered"}

RequiredStatus(op) ==
    CASE op = "confirm_order" -> "created"
      [] op = "mark_preparing" -> "confirmed"
      [] op = "mark_ready" -> "preparing"

\* C12: confirm_order, mark_preparing and mark_ready succeed only for the
\* owner of the order's restaurant and only from created, confirmed and
\* preparing; mark_picked_up and mark_delivered succeed only for the courier
\* of that delivery; a refused call leaves orders and deliveries as they were.
C12_OnlyOwnerAndAssignedCourier ==
    [][(last'.op \in OwnerOps \cup CourierOps) =>
          IF last'.code = 200
          THEN IF last'.op \in OwnerOps
               THEN /\ OrderExists(last'.target)
                    /\ RestaurantOwner(orders[last'.target].restaurant_id) = last'.actor
                    /\ orders[last'.target].status = RequiredStatus(last'.op)
               ELSE /\ DeliveryExists(last'.target)
                    /\ deliveries[last'.target].driver_id = last'.actor
          ELSE orders' = orders /\ deliveries' = deliveries]_vars

\* a courier with a profile was refused the pickup of another courier's
\* delivery
C12_OtherCourierRefused ==
    /\ last.op = "mark_picked_up" /\ last.code # 200
    /\ DriverOf(last.actor) # NULL
    /\ DeliveryExists(last.target)
    /\ deliveries[last.target].driver_id # last.actor
    /\ deliveries[last.target].pickup_time = NULL

\* C13: the restaurant-side cancel_order succeeds only from created,
\* confirmed, preparing, ready or assigned; from picked_up, delivered,
\* cancelled or refunded it fails and the status stays.
C13_RestaurantCancelOnlyBeforePickup ==
    [][(last'.op = "restaurant_cancel_order" /\ OrderExists(last'.target)) =>
          IF last'.code = 200
          THEN orders[last'.target].status \in
                  {"created", "confirmed", "preparing", "ready", "assigned"}
          ELSE orders' = orders]_vars

\* C14: the customer-side cancel_order succeeds only for the customer who
\* placed the order and only from created or confirmed; every other call
\* fails and leaves the order unchanged.
C14_CustomerCancelOnlyOwnEarly ==
    [][last'.op = "customer_cancel_order" =>
          IF last'.code = 200
          THEN /\ OrderExists(last'.target)
               /\ orders[last'.target].customer_id = last'.actor
               /\ orders[last'.target].status \in {"created", "confirmed"}
               /\ orders' = SetStatus(last'.target, "cancelled")
          ELSE orders' = orders]_vars

\* the customer of an order was refused its cancellation after preparation
\* had begun
C14_LateCancelRefused ==
    /\ last.op = "customer_cancel_order" /\ last.code = 400
    /\ OrderExists(last.target)
    /\ orders[last.target].customer_id = last.actor
    /\ orders[last.target].status = "preparing"

\* C15: for one delivery, pickup succeeds at most once and delivery at most
\* once and only after pickup: a successful pickup finds no pickup timestamp,
\* a successful delivery finds a pickup timestamp and no delivery timestamp,
\* and timestamps and earning once written never change.
C15_PickupAndDeliveryOnce ==
    [][/\ (last'.op = "mark_picked_up" /\ last'.code = 200) =>
             deliveries[last'.target].pickup_time = NULL
       /\ (last'.op = "mark_delivered" /\ last'.code = 200) =>
             /\ deliveries[last'.target].pickup_time # NULL
             /\ deliveries[last'.target].delivery_time = NULL
       /\ \A d \in DOMAIN deliveries :
             /\ deliveries[d].pickup_time # NULL =>
                   deliveries'[d].pickup_time = deliveries[d].pickup_time
             /\ deliveries[d].delivery_time # NULL =>
                   /\ deliveries'[d].delivery_time = deliveries[d].delivery_time
                   /\ deliveries'[d].driver_earning = deliveries[d].driver_earning
             /\ deliveries'[d].delivery_time # NULL =>
                   deliveries'[d].pickup_time # NULL]_vars

\* the courier of a delivery already picked up was refused a second pickup
C15_SecondPickupRefused ==
    /\ last.op = "mark_picked_up" /\ last.code = 400
    /\ DeliveryExists(last.target)
    /\ deliveries[last.target].driver_id = last.actor
    /\ deliveries[last.target].pickup_time # NULL

\* C16: an order in status assigned, picked_up or delivered has its rider_id
\* set, to the courier of its delivery when there is one.
C16_RiderSetWhenAssigned ==
    \A o \in OrderIds :
        orders[o].status \in {"assigned", "picked_up", "delivered"} =>
            /\ orders[o].rider_id # NULL
            /\ DeliveryExists(o) => orders[o].rider_id = deliveries[o].driver_id

\* C17: accept_delivery succeeds only on a ready order, for an available
\* courier whose vehicle is eligible for the order's distance; a rejected
\* call leaves the order as it was.
C17_AcceptOnlyEligibleCourier ==
    [][last'.op = "accept_delivery" =>
          IF last'.code = 201
          THEN /\ orders[last'.target].status = "ready"
               /\ drivers[last'.actor].is_available
               /\ orders[last'.target].distance_km # NULL
               /\ driver_eligible(drivers[last'.actor].vehicle_type,
                                  orders[last'.target].distance_km)
          ELSE orders' = orders]_vars

\* C18: a delivered, cancelled or refunded order changes in nothing but its
\* status moving to refunded; assign_rider_to_order changes an order only
\* when its status is ready and fails otherwise.
C18_TerminalOrdersAreFrozen ==
    [][/\ \A o \in OrderIds :
             orders[o].status \in TerminalStatus =>
                 \/ orders'[o] = orders[o]
                 \/ orders'[o] = [orders[o] EXCEPT !.status = "refunded"]
       /\ (last'.op = "assign_rider_to_order" /\ OrderExists(last'.target)
             /\ orders[last'.target].status # "ready") =>
                 /\ last'.code # 200
                 /\ orders' = orders]_vars

\* C19: refund_order succeeds only for a super admin or a holder of support
\* with the order's city in city_ids, only from delivered or cancelled, and
\* only on an order for which no refund was issued before; a refused call
\* leaves the order unchanged.
C19_RefundGuardedAndOnce ==
    [][last'.op = "refund_order" =>
          IF last'.code = 200
          THEN /\ \/ Scopes(last'.actor).is_super_admin
                  \/ /\ "support" \in Scopes(last'.actor).role_codes
                     /\ orders[last'.target].city_id \in Scopes(last'.actor).city_ids
               /\ orders[last'.target].status \in {"delivered", "cancelled"}
               /\ last'.target \notin refunds
          ELSE orders' = orders]_vars

\* ------------------------------------------------------------------------
\* Stored assignments (SpecGrant)
\* ------------------------------------------------------------------------

\* C20: every stored assignment agrees with the scope type of its role:
\* global and self with neither city_id nor restaurant_id, city with city_id
\* and no restaurant_id, restaurant with restaurant_id; a grant request that
\* does not agree is refused and adds no row.
C20_AssignmentsMatchScopeType ==
    /\ \A i \in DOMAIN user_roles :
          LET row == user_roles[i]
              scope_type == RoleScopeType(row.role) IN
          /\ scope_type \in {"global", "self"} =>
                row.city_id = NULL /\ row.restaurant_id = NULL
          /\ scope_type = "city" => row.city_id # NULL /\ row.restaurant_id = NULL
          /\ scope_type = "restaurant" => row.restaurant_id # NULL
    /\ (last.op = "assign_user_role" /\ last.code = 201) =>
          LET scope_type == RoleScopeType(last.args[1]) IN
          /\ scope_type \in {"global", "self"} =>
                last.args[2] = NULL /\ last.args[3] = NULL
          /\ scope_type = "city" => last.args[2] # NULL /\ last.args[3] = NULL
          /\ scope_type = "restaurant" => last.args[3] # NULL

\* the active assignments of the store ur that carry the given tuple
ActiveSameTuple(ur, user_id, role_code, city_id, restaurant_id) ==
    {i \in DOMAIN ur :
        /\ ur[i].is_active
        /\ ur[i].user_id = user_id
        /\ ur[i].role = role_code
        /\ ur[i].city_id = city_id
        /\ ur[i].restaurant_id = restaurant_id}

C22_RevokeOnlyCityRolesOfOwnCity ==
    [][last'.op = "revoke_user_role" =>
          IF last'.code = 200
          THEN \/ Scopes(last'.actor).is_super_admin
               \/ /\ has_role(Scopes(last'.actor), {"city_admin"})
                  /\ RoleScopeType(user_roles[last'.target].role) = "city"
                  /\ user_roles[last'.target].city_id
                        \in Scopes(last'.actor).city_ids
          ELSE user_roles' = user_roles]_vars

\* C23: a successful revoke_user_role keeps the row, with is_active false
\* and revoked_at set and with user, role, city_id, restaurant_id,
\* assigned_by and assigned_at as before; no operation ever lowers the
\* number of stored assignments.
C23_RevocationKeepsTheRow ==
    [][/\ Len(user_roles') >= Len(user_roles)
       /\ (last'.op = "revoke_user_role" /\ last'.code = 200) =>
             /\ last'.target \in DOMAIN user_roles'
             /\ ~user_roles'[last'.target].is_active
             /\ user_roles'[last'.target].revoked_at # NULL
             /\ \A i \in DOMAIN user_roles :
                   /\ i # last'.target => user_roles'[i] = user_roles[i]
                   /\ user_roles'[i].user_id = user_roles[i].user_id
                   /\ user_roles'[i].role = user_roles[i].role
                   /\ user_roles'[i].city_id = user_roles[i].city_id
                   /\ user_roles'[i].restaurant_id = user_roles[i].restaurant_id
                   /\ user_roles'[i].assigned_by = user_roles[i].assigned_by
                   /\ user_roles'[i].assigned_at = user_roles[i].assigned_at]_vars

\* an assignment granted by a request is stored revoked, its grant kept
C23_RevokedRowStored ==
    /\ last.op = "revoke_user_role"
    /\ last.code = 200
    /\ ~user_roles[last.target].is_active
    /\ user_roles[last.target].revoked_at # NULL
    /\ user_roles[last.target].assigned_at > 0
    /\ user_roles[last.target].assigned_at < user_roles[last.target].revoked_at

\* ------------------------------------------------------------------------
\* Revocation takes effect on the next request (SpecRevoke)
\* ------------------------------------------------------------------------

\* the account has, in the store as it is now, an assignment of the role
\* that is not revoked and whose role is not deactivated
HoldsNow(user_id, role_code) ==
    \E i \in DOMAIN user_roles :
        /\ user_roles[i].user_id = user_id
        /\ user_roles[i].role = role_code
        /\ user_roles[i].is_active
        /\ roles[role_code]

\* the city is the city of an assignment of a city-scoped role the account
\* has now
CityHeldNow(user_id, city_id) ==
    \E i \in DOMAIN user_roles :
        /\ user_roles[i].user_id = user_id
        /\ RoleScopeType(user_roles[i].role) = "city"
        /\ user_roles[i].city_id = city_id
        /\ user_roles[i].is_active
        /\ roles[user_roles[i].role]

\* C24: every request is decided on the assignments as they are stored when
\* it is served: after a revocation or the deactivation of a role has
\* committed, assign_rider_to_order succeeds for an account that is not
\* super admin only if it still has a dispatcher assignment, and
\* refund_order only if it still has a support assignment, neither revoked
\* nor of a deactivated role, and a city assignment for the order's city.
C24_NoStalePermission ==
    [][(/\ last'.op \in {"assign_rider_to_order", "refund_order"}
        /\ last'.code = 200
        /\ ~HoldsNow(last'.actor, "super_admin")) =>
           /\ HoldsNow(last'.actor,
                       IF last'.op = "refund_order" THEN "support" ELSE "dispatcher")
           /\ CityHeldNow(last'.actor, orders[last'.target].city_id)]_vars

\* the dispatcher whose assignment was revoked is refused the next
\* assignment of a rider
C24_RevokedDispatcherRefused ==
    /\ last.op = "assign_rider_to_order"
    /\ last.code = 403
    /\ \E i \in DOMAIN user_roles :
          /\ user_roles[i].user_id = last.actor
          /\ user_roles[i].role = "dispatcher"
          /\ user_roles[i].revoked_at # NULL
    /\ roles["dispatcher"]
    /\ ~HoldsNow(last.actor, "dispatcher")

\* ------------------------------------------------------------------------
\* Scope resolution (SpecScopes)
\* ------------------------------------------------------------------------

\* the assignments of the account that count: assignment and role active
CountedRows(user_id) ==
    {i \in DOMAIN user_roles :
        /\ user_roles[i].user_id = user_id
        /\ user_roles[i].is_active
        /\ roles[user_roles[i].role]}

\* the reduction of the counted assignments of the account
ReducedScopes(user_id) ==
    LET rows == CountedRows(user_id) IN
    [user_id |-> user_id,
     is_super_admin |-> \E i \in rows : user_roles[i].role = "super_admin",
     city_ids |-> {user_roles[i].city_id :
                     i \in {j \in rows : RoleScopeType(user_roles[j].role) = "city"}}
                  \ {NULL},
     restaurant_ids |-> {user_roles[i].restaurant_id :
                     i \in {j \in rows :
                              RoleScopeType(user_roles[j].role) = "restaurant"}}
                  \ {NULL},
     is_self_only |-> \E i \in rows : RoleScopeType(user_roles[i].role) = "self",
     role_codes |-> {user_roles[i].role : i \in rows}]

\* C25: get_user_scopes returns the reduction of the assignments of the
\* user whose assignment and role are both active (role codes, super admin
\* flag, city ids of the city-scoped ones, restaurant ids of the
\* restaurant-scoped ones, self flag); a city-scoped assignment without
\* city_id adds its role code and no city; a second call with no change in
\* between returns the same.
C25_ScopesAreTheReduction ==
    [][last'.op = "get_user_scopes" =>
          /\ last'.code = 200
          /\ last'.result = {ReducedScopes(last'.target)}
          /\ (last.op = "get_user_scopes" /\ last.target = last'.target) =>
                last'.result = last.result]_vars

\* scopes were resolved for an account holding a city-scoped role without
\* city_id next to a restaurant assignment that carries a city_id
C25_CityRoleWithoutCityResolved ==
    /\ last.op = "get_user_scopes"
    /\ last.target = StaffUser
    /\ \E i \in CountedRows(StaffUser) :
          user_roles[i].role = "dispatcher" /\ user_roles[i].city_id = NULL
    /\ \E i \in CountedRows(StaffUser) :
          user_roles[i].role = "restaurant_admin" /\ user_roles[i].city_id # NULL
    /\ \E sc \in last.result :
          /\ "dispatcher" \in sc.role_codes
          /\ sc.city_ids = {}
          /\ sc.restaurant_ids # {}

\* scopes without any permission
EmptyScopes(user_id) ==
    [user_id |-> user_id, is_super_admin |-> FALSE, city_ids |-> {},
     restaurant_ids |-> {}, is_self_only |-> FALSE, role_codes |-> {}]

\* C26: resolving the scopes of an unknown user id or of a deactivated
\* user gives the empty scopes and no error, whatever assignments are
\* stored for that id.
C26_UnknownOrInactiveResolvesEmpty ==
    (last.op = "get_user_scopes" /\ ~UserIsActive(last.target)) =>
        /\ last.code = 200
        /\ last.result = {EmptyScopes(last.target)}

\* ------------------------------------------------------------------------
\* Error handling of the transition endpoints (Spec)
\* ------------------------------------------------------------------------

TransitionOps ==
    {"confirm_order", "mark_preparing", "mark_ready", "restaurant_cancel_order",
     "customer_cancel_order", "accept_delivery", "mark_picked_up",
     "mark_delivered", "assign_rider_to_order", "refund_order"}

\* C27: a transition request answered with an error leaves the orders
\* (status, rider_id) and the deliveries (pickup and delivery time, earning)
\* as they were; a request that succeeds applies its effects together:
\* mark_picked_up the pickup time and status picked_up, mark_delivered the
\* delivery time and status delivered, assign_rider_to_order the rider_id
\* and status assigned.
C27_TransitionsAllOrNothing ==
    [][last'.op \in TransitionOps =>
          IF last'.code \notin {200, 201}
          THEN orders' = orders /\ deliveries' = deliveries
          ELSE /\ last'.op = "mark_picked_up" =>
                     /\ deliveries[last'.target].pickup_time = NULL
                     /\ deliveries'[last'.target].pickup_time # NULL
                     /\ orders'[last'.target].status = "picked_up"
               /\ last'.op = "mark_delivered" =>
                     /\ deliveries[last'.target].delivery_time = NULL
                     /\ deliveries'[last'.target].delivery_time # NULL
                     /\ orders'[last'.target].status = "delivered"
               /\ last'.op = "assign_rider_to_order" =>
                     /\ orders'[last'.target].rider_id = last'.args[1]
                     /\ orders'[last'.target].status = "assigned"]_vars

\* the caller is the party the endpoint is reserved for on this order: the
\* owner of its restaurant, its customer, the courier of its delivery
AuthorizedFor(op, actor, oid) ==
    CASE op \in OwnerOps \cup {"restaurant_cancel_order"} ->
            /\ UserAccountRole(actor) = "restaurant_owner"
            /\ RestaurantOwner(orders[oid].restaurant_id) = actor
      [] op = "customer_cancel_order" ->
            /\ UserAccountRole(actor) = "customer"
            /\ orders[oid].customer_id = actor
      [] op \in CourierOps ->
            /\ UserAccountRole(actor) = "driver"
            /\ DriverOf(actor) # NULL
            /\ deliveries[oid].driver_id = DriverOf(actor)

\* the order or delivery is in the state the endpoint requires
PreconditionHolds(op, oid) ==
    CASE op \in OwnerOps -> orders[oid].status = RequiredStatus(op)
      [] op = "restaurant_cancel_order" ->
            orders[oid].status \notin {"delivered", "cancelled"}
      [] op = "customer_cancel_order" ->
            orders[oid].status \in {"created", "confirmed"}
      [] op = "mark_picked_up" -> deliveries[oid].pickup_time = NULL
      [] op = "mark_delivered" ->
            /\ deliveries[oid].pickup_time # NULL
            /\ deliveries[oid].delivery_time = NULL

\* C28: on every transition endpoint of the owner, customer and courier, a
\* caller who is not the party authorized for the existing order (or
\* delivery) is answered 403 whatever its status, and an authorized caller
\* whose precondition fails is answered 400; neither is answered in place
\* of the other, and an unauthorized caller is never answered 404.
C28_ForbiddenBeforePrecondition ==
    [][(/\ last'.op \in OwnerOps \cup CourierOps
                \cup {"restaurant_cancel_order", "customer_cancel_order"}
        /\ OrderExists(last'.target)
        /\ last'.op \in CourierOps => DeliveryExists(last'.target)) =>
           IF ~AuthorizedFor(last'.op, last'.actor, last'.target)
           THEN last'.code = 403
           ELSE ~PreconditionHolds(last'.op, last'.target) => last'.code = 400]_vars

\* ------------------------------------------------------------------------
\* Pricing (SpecPricing)
\* ------------------------------------------------------------------------

\* fee, in hundredths, is a hundredth nearest to exact / 100 hundredths
NearestHundredth(fee, exact) ==
    /\ 100 * fee - exact <= 50
    /\ exact - 100 * fee <= 50

\* C29: the quote has the subtotal as given, the service fee
\* subtotal x SERVICE_FEE_RATE and, for a delivery order with a known
\* distance, the delivery fee DELIVERY_BASE_FEE + distance x
\* DELIVERY_PER_KM_FEE, each rounded to a nearest hundredth; the delivery fee
\* is 0 for pickup orders and for an unknown distance; the total is the sum
\* of the three and holds no tip.
C29_QuoteComposition ==
    last.op = "Quote" =>
        \A q \in last.result :
            LET subtotal == last.args[1]
                distance_km == last.args[2]
                order_type == last.args[3]
            IN  /\ q.subtotal = subtotal
                /\ NearestHundredth(q.service_fee, subtotal * SERVICE_FEE_RATE)
                /\ IF order_type = "delivery" /\ distance_km # NULL
                   THEN NearestHundredth(q.delivery_fee,
                            100 * DELIVERY_BASE_FEE
                            + distance_km * DELIVERY_PER_KM_FEE)
                   ELSE q.delivery_fee = 0
                /\ q.total = q.subtotal + q.service_fee + q.delivery_fee

\* the quote for (19.99, 4.2, delivery) is 19.99, 2.00, 4.52, 26.51
C29_ExampleQuote ==
    /\ last.op = "Quote"
    /\ last.args = <<1999, 420, "delivery">>
    /\ last.result = {[subtotal |-> 1999, service_fee |-> 200,
                       delivery_fee |-> 452, total |-> 2651]}

\* exact / 100 hundredths rounded half up to a hundredth
HalfUp(exact) == (exact + 50) \div 100

\* C30: every amount of the quote is rounded half up to two decimals: a
\* value whose third decimal is exactly 5 goes up, whatever its binary
\* representation.
C30_RoundingIsHalfUp ==
    last.op = "Quote" =>
        \A q \in last.result :
            LET subtotal == last.args[1]
                distance_km == last.args[2]
                order_type == last.args[3]
            IN  /\ q.subtotal = subtotal
                /\ q.service_fee = HalfUp(subtotal * SERVICE_FEE_RATE)
                /\ (order_type = "delivery" /\ distance_km # NULL) =>
                      q.delivery_fee = HalfUp(100 * DELIVERY_BASE_FEE
                                              + distance_km * DELIVERY_PER_KM_FEE)
                /\ q.total = q.subtotal + q.service_fee + q.delivery_fee

\* ------------------------------------------------------------------------
\* Order placement and app gates (SpecOrdering)
\* ------------------------------------------------------------------------

\* C31: every order create_order stores has subtotal, service fee, delivery
\* fee, tip and total all >= 0 with total = subtotal + service fee +
\* delivery fee + tip, and a request with a negative tip or a negative
\* quantity is not accepted: it stores no order.
C31_StoredMoneyIsSound ==
    last.op = "create_order" =>
        LET in == last.args[1] IN
        /\ last.code = 201 =>
              LET o == orders[last.target] IN
              /\ o.subtotal >= 0 /\ o.service_fee >= 0 /\ o.delivery_fee >= 0
              /\ o.tip >= 0 /\ o.total >= 0
              /\ o.total = o.subtotal + o.service_fee + o.delivery_fee + o.tip
        /\ (in.tip < 0 \/ in.quantity < 0) =>
              /\ last.code # 201
              /\ orders = <<>>

\* C32: an order is created with the city_id of its restaurant, and no step
\* changes the city_id, customer_id or restaurant_id of a stored order.
C32_ScopeAnchorsAreFixed ==
    [][/\ \A o \in DOMAIN orders :
            /\ o \in DOMAIN orders'
            /\ orders'[o].city_id = orders[o].city_id
            /\ orders'[o].customer_id = orders[o].customer_id
            /\ orders'[o].restaurant_id = orders[o].restaurant_id
       /\ \A o \in DOMAIN orders' \ DOMAIN orders :
            orders'[o].city_id = RestaurantCity(orders'[o].restaurant_id)]_vars

\* the endpoints behind get_current_customer and get_current_driver, and
\* the account role each requires
GatedOps == {"create_order", "get_profile", "get_driver_profile"}
RequiredRole(op) == IF op = "get_driver_profile" THEN "driver" ELSE "customer"
RequiredDetail(op) ==
    IF op = "get_driver_profile" THEN "Driver access required"
    ELSE "Customer access required"
SentCredentials(r) == IF r.op = "create_order" THEN r.args[1].creds ELSE r.args[1]
Authenticated(creds) == creds.kind = "access" /\ UserIsActive(creds.sub)

\* C35: a gated app endpoint answers 401, never 403, to a request without a
\* credential, with an undecodable token, with a token that is not an access
\* token or for an inactive or unknown account; it answers 403 naming the
\* required role to an authenticated account of another role; neither
\* refusal changes the store; an authenticated account of the required role
\* gets past both gates.
C35_AuthenticationBeforeRole ==
    [][last'.op \in GatedOps =>
          LET creds == SentCredentials(last') IN
          /\ ~Authenticated(creds) => last'.code = 401
          /\ (Authenticated(creds)
              /\ UserAccountRole(creds.sub) # RequiredRole(last'.op)) =>
                 /\ last'.code = 403
                 /\ last'.result = {RequiredDetail(last'.op)}
          /\ (Authenticated(creds)
              /\ UserAccountRole(creds.sub) = RequiredRole(last'.op)) =>
                 last'.code \notin {401, 403}
          /\ last'.code \in {401, 403} =>
                 UNCHANGED <<user_roles, roles, shift_leads, restaurants,
                             refunds, orders, deliveries, drivers, clock>>]_vars

\* a courier's access token refused on a customer endpoint, and an owner's
\* on a rider endpoint
C35_RiderRefusedOnCustomerApp ==
    /\ last.op = "create_order"
    /\ last.args[1].creds = Credentials("access", 5)
    /\ last.code = 403
    /\ last.result = {"Customer access required"}

\* ------------------------------------------------------------------------
\* Restaurant visibility and activation (SpecListing)
\* ------------------------------------------------------------------------

\* the listing and detail endpoints as an ordering customer calls them
CustomerFacing(r) ==
    \/ r.op \in {"list_restaurants", "get_restaurant_details"}
    \/ r.op = "list_restaurants_scoped" /\ Scopes(r.actor).role_codes = {}

\* C33: every restaurant a customer-facing listing or detail endpoint
\* returns is approved and active at that moment.
C33_OnlyApprovedAndActiveShown ==
    [][(CustomerFacing(last') /\ last'.code = 200) =>
          \A r \in last'.result :
              restaurants'[r].is_approved /\ restaurants'[r].is_active]_vars

\* the owner of a restaurant, holding no admin role
PlainOwner(u, r) ==
    /\ r \in Restaurants
    /\ RestaurantOwner(r) = u
    /\ Scopes(u).role_codes \cap {"super_admin", "city_admin", "restaurant_admin"} = {}

\* C34: toggle_restaurant_active and update_restaurant called by the plain
\* owner of a restaurant that is not approved leave its is_active as it
\* was; is_approved becomes true only through approve_restaurant called by
\* a super admin, a city admin of the restaurant's city or an admin of the
\* restaurant.
C34_NoActivationBeforeApproval ==
    [][/\ (/\ last'.op \in {"toggle_restaurant_active", "update_restaurant"}
           /\ PlainOwner(last'.actor, last'.target)
           /\ ~restaurants[last'.target].is_approved) =>
              restaurants'[last'.target].is_active
                 = restaurants[last'.target].is_active
       /\ \A r \in Restaurants :
             (~restaurants[r].is_approved /\ restaurants'[r].is_approved) =>
                /\ last'.op = "approve_restaurant" /\ last'.target = r
                /\ LET scopes == Scopes(last'.actor) IN
                   \/ scopes.is_super_admin
                   \/ /\ has_role(scopes, {"city_admin"})
                      /\ RestaurantCity(r) \in scopes.city_ids
                   \/ /\ has_role(scopes, {"restaurant_admin"})
                      /\ r \in scopes.restaurant_ids]_vars

\* ------------------------------------------------------------------------
\* Assigned orders and their courier (SpecDelivery)
\* ------------------------------------------------------------------------

\* mark_picked_up called by u for the order would succeed
CanPickUp(u, oid) == DeliveryGate(u, oid) = 0 /\ deliveries[oid].pickup_time = NULL

\* C36: every order in status assigned has a courier for whom mark_picked_up
\* succeeds (and mark_delivered after it), and when the order names a rider
\* that courier is the named rider.
C36_AssignedOrderCanBePickedUp ==
    \A oid \in OrderIds :
        orders[oid].status = "assigned" =>
            /\ \E u \in DOMAIN drivers : CanPickUp(u, oid)
            /\ orders[oid].rider_id # NULL => CanPickUp(orders[oid].rider_id, oid)

\* ------------------------------------------------------------------------
\* Concurrent acceptance (SpecAccept)
\* ------------------------------------------------------------------------

Accepted(r, oid) == req[r].pc = "done" /\ req[r].oid = oid /\ req[r].code = 201

\* C37: of two accept_delivery requests for the same order at most one
\* succeeds; the order then has the one delivery record of one courier, the
\* courier of the request that succeeded, and the other request, once
\* answered, has got an error.
C37_OneCourierPerOrder ==
    \A oid \in OrderIds :
        \A r \in ReqIds :
            Accepted(r, oid) =>
                /\ orders[oid].status = "assigned"
                /\ DeliveryExists(oid)
                /\ deliveries[oid].driver_id = DriverOf(req[r].actor)
                /\ \A s \in ReqIds \ {r} :
                      (req[s].oid = oid /\ req[s].pc = "done") => req[s].code >= 400

\* both couriers loaded order 1 while it was ready; one was accepted and
\* the other failed at its commit
C37_LoserFailsAtCommit ==
    \E r, s \in ReqIds :
        /\ Accepted(r, 1)
        /\ req[s].pc = "done" /\ req[s].oid = 1 /\ req[s].code = 500
        /\ req[s].seen = "ready"
        /\ req[s].actor # req[r].actor

\* ------------------------------------------------------------------------
\* Grants by actors who are not super admin (SpecGrant)
\* ------------------------------------------------------------------------

SuperAdmins(ur, rl) == {u \in Users : get_user_scopes(ur, rl, u).is_super_admin}

\* C38: a step of an actor who is not super admin makes an assignment active
\* only if its role is city-scoped, the actor is a city admin and the city
\* is among the actor's city_ids before the step; such a step leaves the set
\* of super admins as it was.
C38_OnlyCityGrantsWithoutSuperAdmin ==
    [][~Scopes(last'.actor).is_super_admin =>
          /\ \A i \in DOMAIN user_roles' :
                (/\ user_roles'[i].is_active
                 /\ (i \in DOMAIN user_roles => ~user_roles[i].is_active)) =>
                    /\ RoleScopeType(user_roles'[i].role) = "city"
                    /\ has_role(Scopes(last'.actor), {"city_admin"})
                    /\ user_roles'[i].city_id \in Scopes(last'.actor).city_ids
          /\ SuperAdmins(user_roles', roles') = SuperAdmins(user_roles, roles)]_vars

\* the city admin of city 1 granted a dispatcher assignment for city 1
C38_CityAdminGrantedCityRole ==
    /\ last.op = "assign_user_role" /\ last.code = 201
    /\ ~Scopes(last.actor).is_super_admin
    /\ last.args = <<"dispatcher", 1, NULL>>
    /\ \E i \in last.result :
          /\ user_roles[i].is_active
          /\ user_roles[i].role = "dispatcher" /\ user_roles[i].city_id = 1
          /\ user_roles[i].assigned_by = last.actor

\* C40: once an assignment has a revoked_at, no step changes revoked_at or
\* any other field of it; a second revoke_user_role leaves it as the first
\* one did.
C40_RevokedRowIsFrozen ==
    [][\A i \in DOMAIN user_roles :
          user_roles[i].revoked_at # NULL =>
             /\ i \in DOMAIN user_roles'
             /\ user_roles'[i] = user_roles[i]]_vars

\* ------------------------------------------------------------------------
\* Concurrent grants (SpecAssign)
\* ------------------------------------------------------------------------

\* C39: whatever the interleaving of two assign_user_role requests, no two
\* active assignments have the same user, role, city_id and restaurant_id.
C39_OneActiveRowPerTuple ==
    \A i, j \in DOMAIN user_roles :
        (/\ i # j
         /\ user_roles[i].is_active /\ user_roles[j].is_active
         /\ user_roles[i].user_id = user_roles[j].user_id
         /\ user_roles[i].role = user_roles[j].role
         /\ user_roles[i].city_id = user_roles[j].city_id)
            => user_roles[i].restaurant_id # user_roles[j].restaurant_id

====
